---------------------------- MODULE Spec2Model ----------------------------
(***************************************************************************)
(* A model of the sample-camera calibrator (MathiMuts/sample-camera).      *)
(*                                                                         *)
(* Numbers.  The program computes zoom factors, pan offsets and            *)
(* source-frame points in floating point.  The model keeps every such      *)
(* value as an integer count of 1/Scale units (fixed point): the float 1.0 *)
(* is Scale, a pixel coordinate x is x*Scale.  Sums and differences are    *)
(* exact, a quotient is rounded to the nearest unit (FDiv), the way a      *)
(* float quotient is rounded to the nearest representable value.           *)
(***************************************************************************)
EXTENDS Integers, Sequences, FiniteSets, TLC

(***************************************************************************)
(* Bounds of the model (not program constants).                            *)
(***************************************************************************)
Scale == 1000         \* fixed-point units per 1.0
FrameWidth == 320     \* frame_w of the camera frame, in pixels
FrameHeight == 240    \* frame_h of the camera frame, in pixels
MaxJumps == 3         \* pointer positions visited in a run (changes of position)
MaxViewJumps == 2     \* the same in a run that only pans and zooms
MaxLabelJumps == 2    \* the same in a run of a sample-collection frame
MaxSamples == 3       \* samples collected before left clicks stop being delivered
MaxEdits == 2         \* table edits opened in a run
MaxWheel == 2         \* wheel events in a run that also clicks
MaxCoord == 4         \* largest coordinate of the calibration points given to the rectangle solver
RoundTripTol == 2     \* tolerance of the homography round trip, in 1/Scale pixel
MaxPanJumps == 3      \* pointer positions visited in a run that follows one pan gesture
MaxPanWheel == 1      \* wheel events in such a run
PanTol == 2           \* rounding allowed in a pan offset, in 1/Scale pixel
MaxPending == 2       \* scheduled video_loop callbacks beyond which the frame is not shown again

(***************************************************************************)
(* Program constants.                                                      *)
(***************************************************************************)
EVENT_MOUSEMOVE == 0
EVENT_LBUTTONDOWN == 1
EVENT_RBUTTONDOWN == 2
EVENT_MBUTTONDOWN == 3
EVENT_MBUTTONUP == 6
EVENT_MOUSEWHEEL == 10

ZOOM_MIN == 1
ZOOM_MAX == 10
ZOOM_STEP_NUM == 12   \* the wheel step 1.2 = 12/10
ZOOM_STEP_DEN == 10
DETECTION_RADIUS == 15
MAX_POINTS == 3

HEADER_HEIGHT == 80
BUTTON_WIDTH == 120
BUTTON_HEIGHT == 40
PADDING == 10

(***************************************************************************)
(* Fixed-point helpers.                                                    *)
(***************************************************************************)
\* a / b rounded to the nearest integer, half away from zero (b > 0).
FDiv(a, b) == IF a >= 0 THEN (2 * a + b) \div (2 * b)
              ELSE 0 - ((2 * (0 - a) + b) \div (2 * b))

\* np.clip(v, lo, hi)
Clip(v, lo, hi) == IF v < lo THEN lo ELSE IF v > hi THEN hi ELSE v

\* int(v) of a float: truncation toward zero, giving whole pixels.
IntOf(v) == IF v >= 0 THEN v \div Scale ELSE 0 - ((0 - v) \div Scale)

Add2(p, q) == <<p[1] + q[1], p[2] + q[2]>>
Sub2(p, q) == <<p[1] - q[1], p[2] - q[2]>>
Abs(a) == IF a < 0 THEN 0 - a ELSE a

\* np.array([x, y]) / zoom: whole-pixel view coordinates over a zoom factor.
OverZoom(v, z) == <<FDiv(v[1] * Scale * Scale, z), FDiv(v[2] * Scale * Scale, z)>>

\* WheelZoom with the lower limit of the clip forgotten.
WheelZoomNoFloor(z, flags) ==
    LET new_zoom == IF flags > 0 THEN FDiv(z * ZOOM_STEP_NUM, ZOOM_STEP_DEN)
                    ELSE FDiv(z * ZOOM_STEP_DEN, ZOOM_STEP_NUM)
    IN IF new_zoom > ZOOM_MAX * Scale THEN ZOOM_MAX * Scale ELSE new_zoom

\* zoom * 1.2 or zoom / 1.2, then np.clip(.., 1.0, 10.0)
WheelZoom(z, flags) ==
    Clip(IF flags > 0 THEN FDiv(z * ZOOM_STEP_NUM, ZOOM_STEP_DEN)
                      ELSE FDiv(z * ZOOM_STEP_DEN, ZOOM_STEP_NUM),
         ZOOM_MIN * Scale, ZOOM_MAX * Scale)

\* max_pan_x, max_pan_y = frame_size * (1 - 1/zoom)
MaxPan(z) == <<FrameWidth * (Scale - FDiv(Scale * Scale, z)),
               FrameHeight * (Scale - FDiv(Scale * Scale, z))>>

\* ClampPan with the upper limit forgotten.
ClampPanFloorOnly(p, z) == <<IF p[1] < 0 THEN 0 ELSE p[1], IF p[2] < 0 THEN 0 ELSE p[2]>>

\* pan_offset[i] = np.clip(pan_offset[i], 0, max_pan_i)
ClampPan(p, z) == <<Clip(p[1], 0, MaxPan(z)[1]), Clip(p[2], 0, MaxPan(z)[2])>>

\* The source-frame point under view point v: pan_offset + v / zoom.
ToSourceFrame(pan, z, v) == Add2(pan, OverZoom(v, z))


(***************************************************************************)
(* State.                                                                  *)
(***************************************************************************)
VARIABLES
    video,      \* sample collection: the frame's _is_active and the video_loop callbacks scheduled with after()
    program,    \* which program of the repository this behaviour runs
    state,      \* calibration step: the UIState object of get_three_points
    cal_pc,     \* calibration step: "loop" while the window is open, else "done"
    result,     \* calibration step: what get_three_points returned
    ui_state,   \* sample collection: Some(the frame's BaseUIState), or None
    sample_points,            \* sample collection: the frame's sample list
    final_rectangle_corners,  \* the controller's rectangle corners, or None
    shown,      \* sample collection: the frame the controller has raised
    edit,       \* sample collection: the table's edit_* fields
    b2_held,    \* whether the middle button is held down over the video label
    pointer,    \* position of the pointer event delivered last
    last,       \* kind of the pointer event the latest step handled, or NoEvent
    calibrated_points,  \* the controller's calibrated_points / place_rectangle's argument
    placement,  \* placement step: the PlacementUIState object and the loop of place_rectangle
    call,       \* the controller callback (with its status) or button command the latest step ran, or NoCall
    anchor,     \* the source-frame point under the pointer when the middle button went down, None once it is up
    selection,  \* sample_positions_module.py: the listbox's selected index, or None
    jumpsLeft,  \* changes of pointer position still allowed
    wheelLeft,  \* wheel events still allowed, or Unlimited
    editsLeft   \* table edits that may still be opened

vars == <<video, program, state, cal_pc, result, ui_state, sample_points,
          final_rectangle_corners, shown, edit, b2_held, pointer, last,
          calibrated_points, placement, call, anchor, selection,
          jumpsLeft, wheelLeft, editsLeft>>

NoEvent == 0 - 1
Nowhere == <<0 - 1, 0 - 1>>
Unlimited == 0 - 1
NoCall == <<>>

\* Python's None, and a value that is not None, for a field that holds either.
None == <<>>
Some(v) == <<v>>

(***************************************************************************)
(* Calibration step (calibration_module.py).                               *)
(***************************************************************************)
\* _is_point_in_rect(px, py, (x, y, w, h))
IsPointInRect(px, py, rect) ==
    /\ rect[1] <= px /\ px <= rect[1] + rect[3]
    /\ rect[2] <= py /\ py <= rect[2] + rect[4]

reset_button_rect == <<PADDING, PADDING, BUTTON_WIDTH, BUTTON_HEIGHT>>
next_button_rect == <<FrameWidth - BUTTON_WIDTH - PADDING, PADDING, BUTTON_WIDTH, BUTTON_HEIGHT>>

\* UIState.check_hover
CheckHover(x, y) ==
    IF IsPointInRect(x, y, reset_button_rect) THEN "reset"
    ELSE IF IsPointInRect(x, y, next_button_rect) THEN "next"
    ELSE "none"

\* UIState.__init__
CalInitState ==
    [points |-> <<>>, confirmed |-> FALSE, zoom |-> ZOOM_MIN * Scale,
     pan_offset |-> <<0, 0>>, is_panning |-> FALSE, pan_start_pos |-> <<0, 0>>,
     hover_target |-> "none"]

\* CalHeader with the "len(state.points) == 3" test forgotten.
CalHeaderAnyCount(st, event, x, y) ==
    IF event = EVENT_MOUSEMOVE THEN [st EXCEPT !.hover_target = CheckHover(x, y)]
    ELSE IF event = EVENT_LBUTTONDOWN THEN
        IF st.hover_target = "next" THEN [st EXCEPT !.confirmed = TRUE]
        ELSE IF st.hover_target = "reset" THEN [st EXCEPT !.points = <<>>]
        ELSE st
    ELSE st

\* The header branch of _mouse_callback (y < HEADER_HEIGHT).
CalHeader(st, event, x, y) ==
    IF event = EVENT_MOUSEMOVE THEN [st EXCEPT !.hover_target = CheckHover(x, y)]
    ELSE IF event = EVENT_LBUTTONDOWN THEN
        IF st.hover_target = "next" /\ Len(st.points) = MAX_POINTS
            THEN [st EXCEPT !.confirmed = TRUE]
        ELSE IF st.hover_target = "reset" THEN [st EXCEPT !.points = <<>>]
        ELSE st
    ELSE st

\* ZoomToCursor with the division by the new zoom forgotten.
ZoomToCursorUndivided(mouse_pos_orig, point_on_view, new_zoom) ==
    Sub2(mouse_pos_orig, <<point_on_view[1] * Scale, point_on_view[2] * Scale>>)

\* pan_offset = mouse_pos_orig - point_on_view / new_zoom
ZoomToCursor(mouse_pos_orig, point_on_view, new_zoom) ==
    Sub2(mouse_pos_orig, OverZoom(point_on_view, new_zoom))

\* The view controls of _mouse_callback, before the clamp.
CalViewControls(st, event, x, y, flags) ==
    IF event = EVENT_MBUTTONDOWN THEN
        [st EXCEPT !.is_panning = TRUE, !.pan_start_pos = <<x, y>>]
    ELSE IF event = EVENT_MOUSEMOVE /\ st.is_panning THEN
        LET d == Sub2(st.pan_start_pos, <<x, y>>)
            delta == <<FDiv(d[1] * Scale * Scale, st.zoom), FDiv(d[2] * Scale * Scale, st.zoom)>>
        IN [st EXCEPT !.pan_offset = Add2(st.pan_offset, delta), !.pan_start_pos = <<x, y>>]
    ELSE IF event = EVENT_MBUTTONUP THEN [st EXCEPT !.is_panning = FALSE]
    ELSE IF event = EVENT_MOUSEWHEEL THEN
        LET mouse_pos_on_view == <<x, y - HEADER_HEIGHT>>
            mouse_pos_orig == ToSourceFrame(st.pan_offset, st.zoom, mouse_pos_on_view)
            new_zoom == WheelZoom(st.zoom, flags)
        IN [st EXCEPT !.zoom = new_zoom,
                      !.pan_offset = ZoomToCursor(mouse_pos_orig, mouse_pos_on_view, new_zoom)]
    ELSE st

\* The square of np.linalg.norm of a fixed-point vector <<dx, dy>>, exact, as
\* <<hi, lo>> with value hi * Scale + lo and 0 <= lo < Scale (the square
\* itself does not fit the checker's integers).
SqNorm(d) ==
    LET px(a) == Abs(a) \div Scale
        fr(a) == Abs(a) % Scale
        hi(a) == px(a) * px(a) * Scale + 2 * px(a) * fr(a) + (fr(a) * fr(a)) \div Scale
        lo(a) == (fr(a) * fr(a)) % Scale
    IN <<hi(d[1]) + hi(d[2]) + (lo(d[1]) + lo(d[2])) \div Scale,
         (lo(d[1]) + lo(d[2])) % Scale>>

\* a < b on such squares: the order of the norms themselves.
SqLess(a, b) == a[1] < b[1] \/ (a[1] = b[1] /\ a[2] < b[2])

\* np.linalg.norm(np.array(p) - point_on_frame) < radius, p in fixed point.
WithinRadius(p, point_on_frame, radius) ==
    SqLess(SqNorm(Sub2(p, point_on_frame)), SqNorm(<<radius, 0>>))

\* A point of whole pixels as a fixed-point vector.
Px(p) == <<p[1] * Scale, p[2] * Scale>>

\* detection_radius = 15 / zoom
DetectionRadius(z) == FDiv(DETECTION_RADIUS * Scale * Scale, z)

\* The index of the point the loop "for p in state.points: if distance <
\* detection_radius: ... break" picks; 0 when there is none.
PointToRemove(pts, point_on_frame, radius) ==
    IF \E i \in 1..Len(pts) : WithinRadius(Px(pts[i]), point_on_frame, radius)
    THEN CHOOSE i \in 1..Len(pts) :
            /\ WithinRadius(Px(pts[i]), point_on_frame, radius)
            /\ \A j \in 1..(i - 1) : ~WithinRadius(Px(pts[j]), point_on_frame, radius)
    ELSE 0

\* list.remove(x) of the element at index i / del list[i]
RemoveAt(s, i) == SubSeq(s, 1, i - 1) \o SubSeq(s, i + 1, Len(s))

\* orig_coords = (int(point_on_frame[0]), int(point_on_frame[1]))
OrigCoords(point_on_frame) == <<IntOf(point_on_frame[1]), IntOf(point_on_frame[2])>>

\* CalPoints with the "len(state.points) < 3" test forgotten.
CalPointsUncapped(st, event, x, y) ==
    LET point_on_frame == ToSourceFrame(st.pan_offset, st.zoom, <<x, y - HEADER_HEIGHT>>)
    IN IF event = EVENT_LBUTTONDOWN THEN
           [st EXCEPT !.points = Append(st.points, OrigCoords(point_on_frame))]
       ELSE IF event = EVENT_RBUTTONDOWN THEN
           LET i == PointToRemove(st.points, point_on_frame, DetectionRadius(st.zoom))
           IN IF i = 0 THEN st ELSE [st EXCEPT !.points = RemoveAt(st.points, i)]
       ELSE st

\* Point placement and removal of _mouse_callback, after the clamp.
CalPoints(st, event, x, y) ==
    LET point_on_frame == ToSourceFrame(st.pan_offset, st.zoom, <<x, y - HEADER_HEIGHT>>)
    IN IF event = EVENT_LBUTTONDOWN /\ Len(st.points) < MAX_POINTS THEN
           [st EXCEPT !.points = Append(st.points, OrigCoords(point_on_frame))]
       ELSE IF event = EVENT_RBUTTONDOWN THEN
           LET i == PointToRemove(st.points, point_on_frame, DetectionRadius(st.zoom))
           IN IF i = 0 THEN st ELSE [st EXCEPT !.points = RemoveAt(st.points, i)]
       ELSE st

\* Clamp pan_offset to [0, max_pan] at the current zoom.
CalClamp(st) == [st EXCEPT !.pan_offset = ClampPan(st.pan_offset, st.zoom)]

\* _mouse_callback(event, x, y, flags, state)
CalMouseCallback(st, event, x, y, flags) ==
    IF y < HEADER_HEIGHT THEN CalHeader(st, event, x, y)
    ELSE CalPoints(CalClamp(CalViewControls(st, event, x, y, flags)), event, x, y)

(***************************************************************************)
(* View controls shared by the Tk frames (ui_components.py).               *)
(***************************************************************************)
\* BaseUIState.__init__
BaseUIState ==
    [zoom |-> ZOOM_MIN * Scale, pan_offset |-> <<0, 0>>, is_panning |-> FALSE,
     pan_start_pos |-> <<0, 0>>]

\* HandleViewControls with the wheel branch written as the final "else":
\* every event no other branch takes zooms.
HandleViewControlsWheelElse(st, event, x, y, flags) ==
    LET point_on_view == <<x, y>>
        moved ==
            IF event = EVENT_MBUTTONDOWN THEN
                [st EXCEPT !.is_panning = TRUE,
                           !.pan_start_pos = ToSourceFrame(st.pan_offset, st.zoom, point_on_view)]
            ELSE IF event = EVENT_MOUSEMOVE /\ st.is_panning THEN
                [st EXCEPT !.pan_offset = Sub2(st.pan_start_pos, OverZoom(point_on_view, st.zoom))]
            ELSE IF event = EVENT_MBUTTONUP THEN [st EXCEPT !.is_panning = FALSE]
            ELSE
                LET mouse_pos_orig == ToSourceFrame(st.pan_offset, st.zoom, point_on_view)
                    new_zoom == WheelZoom(st.zoom, flags)
                IN [st EXCEPT !.zoom = new_zoom,
                              !.pan_offset = ZoomToCursor(mouse_pos_orig, point_on_view, new_zoom)]
    IN [moved EXCEPT !.pan_offset = ClampPan(moved.pan_offset, moved.zoom)]

\* handle_view_controls(event, x, y, flags, state): the state it leaves.
HandleViewControls(st, event, x, y, flags) ==
    LET point_on_view == <<x, y>>
        moved ==
            IF event = EVENT_MBUTTONDOWN THEN
                [st EXCEPT !.is_panning = TRUE,
                           !.pan_start_pos = ToSourceFrame(st.pan_offset, st.zoom, point_on_view)]
            ELSE IF event = EVENT_MOUSEMOVE /\ st.is_panning THEN
                [st EXCEPT !.pan_offset = Sub2(st.pan_start_pos, OverZoom(point_on_view, st.zoom))]
            ELSE IF event = EVENT_MBUTTONUP THEN [st EXCEPT !.is_panning = FALSE]
            ELSE IF event = EVENT_MOUSEWHEEL THEN
                LET mouse_pos_orig == ToSourceFrame(st.pan_offset, st.zoom, point_on_view)
                    new_zoom == WheelZoom(st.zoom, flags)
                IN [st EXCEPT !.zoom = new_zoom,
                              !.pan_offset = ZoomToCursor(mouse_pos_orig, point_on_view, new_zoom)]
            ELSE st
    IN [moved EXCEPT !.pan_offset = ClampPan(moved.pan_offset, moved.zoom)]

\* handle_view_controls: the point_on_frame it returns.
PointOnFrame(st, event, x, y, flags) ==
    LET after == HandleViewControls(st, event, x, y, flags)
    IN ToSourceFrame(after.pan_offset, after.zoom, <<x, y>>)

(***************************************************************************)
(* Pixel-to-millimetre mapping (positions_module.py and                    *)
(* sample_positions_module.py carry the same code).                        *)
(*                                                                         *)
(* The rectangles the model supplies are parallelograms, for which the     *)
(* perspective transform through four point pairs is the affine map that   *)
(* sends the first corner to (0, 0) and the two edges leaving it to        *)
(* (dst_w - 1, 0) and (0, dst_h - 1).  Transformed coordinates are kept in *)
(* 1/Scale of a destination unit; millimetres are kept in                  *)
(* 1/(MM_DIVISOR * Scale) mm, so that the division by 10.0 is exact.       *)
(***************************************************************************)
RECT_REAL_WIDTH_MM == 130
RECT_REAL_HEIGHT_MM == 120
MM_DIVISOR == 10
dst_w == RECT_REAL_WIDTH_MM * MM_DIVISOR
dst_h == RECT_REAL_HEIGHT_MM * MM_DIVISOR

\* np.argmin / np.argmax of a sequence of numbers: the first extreme index.
ArgMin(f) ==
    CHOOSE i \in 1..Len(f) :
        /\ \A j \in 1..Len(f) : f[i] <= f[j]
        /\ \A j \in 1..(i - 1) : f[j] > f[i]

ArgMax(f) ==
    CHOOSE i \in 1..Len(f) :
        /\ \A j \in 1..Len(f) : f[i] >= f[j]
        /\ \A j \in 1..(i - 1) : f[j] < f[i]

\* OrderPoints with the difference taken as x - y.
OrderPointsSwapped(pts) ==
    LET s == [i \in 1..Len(pts) |-> pts[i][1] + pts[i][2]]
        diff == [i \in 1..Len(pts) |-> pts[i][1] - pts[i][2]]
    IN <<pts[ArgMin(s)], pts[ArgMin(diff)], pts[ArgMax(s)], pts[ArgMax(diff)]>>

\* _order_points(pts): s = x + y, diff = np.diff = y - x.
OrderPoints(pts) ==
    LET s == [i \in 1..Len(pts) |-> pts[i][1] + pts[i][2]]
        diff == [i \in 1..Len(pts) |-> pts[i][2] - pts[i][1]]
    IN <<pts[ArgMin(s)], pts[ArgMin(diff)], pts[ArgMax(s)], pts[ArgMax(diff)]>>

Cross(a, b) == a[1] * b[2] - a[2] * b[1]

\* a * m / d rounded to nearest, computed without leaving the checker's
\* integer range (d > 0, m >= 0).
MulDiv(a, m, d) ==
    IF a >= 0 THEN m * (a \div d) + FDiv(m * (a % d), d)
    ELSE 0 - (m * ((0 - a) \div d) + FDiv(m * ((0 - a) % d), d))

\* Three of the four points lie on one line (equal points included): the
\* linear system of cv2.getPerspectiveTransform has no solution.
SingularCorners(src_pts) ==
    \E i \in 1..4, j \in 1..4, k \in 1..4 :
        /\ i < j /\ j < k
        /\ Cross(Sub2(src_pts[j], src_pts[i]), Sub2(src_pts[k], src_pts[i])) = 0

\* cv2.perspectiveTransform(point, cv2.getPerspectiveTransform(src_pts,
\* dst_pts)) for dst_pts = (0,0), (dst_w-1,0), (dst_w-1,dst_h-1), (0,dst_h-1)
\* and src_pts a parallelogram. For singular src_pts cv2's solver fails and
\* leaves the matrix diag(0, 0, 1), which sends every point to (0, 0).
PerspectiveTransform(src_pts, point) ==
    LET e1 == Sub2(src_pts[2], src_pts[1])
        e2 == Sub2(src_pts[4], src_pts[1])
        den == Cross(e1, e2)
        rel == Sub2(point, Px(src_pts[1]))
        sgn == IF den < 0 THEN 0 - 1 ELSE 1
    IN IF SingularCorners(src_pts) THEN <<0, 0>>
       ELSE <<MulDiv(sgn * Cross(rel, e2), dst_w - 1, sgn * den),
              MulDiv(sgn * Cross(e1, rel), dst_h - 1, sgn * den)>>

\* cv2.perspectiveTransform(point, cv2.getPerspectiveTransform(dst_pts,
\* src_pts)), the transform _draw_dynamic_grid builds for the grid lines:
\* point is in 1/Scale of a destination unit, the result in 1/Scale pixel.
InversePerspective(src_pts, point) ==
    LET e1 == Sub2(src_pts[2], src_pts[1])
        e2 == Sub2(src_pts[4], src_pts[1])
        origin == Px(src_pts[1])
    IN IF SingularCorners(src_pts) THEN <<0, 0>>
       ELSE <<origin[1] + FDiv(point[1] * e1[1], dst_w - 1) + FDiv(point[2] * e2[1], dst_h - 1),
              origin[2] + FDiv(point[1] * e1[2], dst_w - 1) + FDiv(point[2] * e2[2], dst_h - 1)>>

\* TransformCamToReal that clamps the transformed point into the
\* destination range instead of rejecting it.
TransformCamToRealClamped(corners, point_on_cam) ==
    IF corners = None \/ Len(corners) # 4 THEN None
    ELSE LET transformed_point == PerspectiveTransform(OrderPoints(corners), point_on_cam)
         IN <<Clip(transformed_point[1], 0, dst_w * Scale),
              Clip(transformed_point[2], 0, dst_h * Scale)>>

\* _transform_cam_to_real(point_on_cam): None, or the pair in millimetres.
TransformCamToReal(corners, point_on_cam) ==
    IF corners = None \/ Len(corners) # 4 THEN None
    ELSE LET transformed_point == PerspectiveTransform(OrderPoints(corners), point_on_cam)
         IN IF /\ 0 <= transformed_point[1] /\ transformed_point[1] < dst_w * Scale
               /\ 0 <= transformed_point[2] /\ transformed_point[2] < dst_h * Scale
            THEN transformed_point
            ELSE None

\* np.argmin over the distances of the samples' cam_coords to a point.
MinDistIdx(samples, point_on_cam) ==
    CHOOSE i \in 1..Len(samples) :
        LET d(k) == SqNorm(Sub2(samples[k].cam_coords, point_on_cam))
        IN /\ \A j \in 1..Len(samples) : ~SqLess(d(j), d(i))
           /\ \A j \in 1..(i - 1) : SqLess(d(i), d(j))

\* SampleToRemove written as the calibration step writes it: the first
\* sample in list order within the radius.
SampleToRemoveFirst(samples, point_on_cam, z) ==
    IF \E i \in 1..Len(samples) : WithinRadius(samples[i].cam_coords, point_on_cam, DetectionRadius(z))
    THEN CHOOSE i \in 1..Len(samples) :
            /\ WithinRadius(samples[i].cam_coords, point_on_cam, DetectionRadius(z))
            /\ \A j \in 1..(i - 1) :
                  ~WithinRadius(samples[j].cam_coords, point_on_cam, DetectionRadius(z))
    ELSE 0

\* The right-click branch of both frames: the index of the sample to
\* delete, 0 when there is none.
SampleToRemove(samples, point_on_cam, z) ==
    IF Len(samples) = 0 THEN 0
    ELSE LET min_dist_idx == MinDistIdx(samples, point_on_cam)
         IN IF WithinRadius(samples[min_dist_idx].cam_coords, point_on_cam, DetectionRadius(z))
            THEN min_dist_idx ELSE 0

(***************************************************************************)
(* Text.  A Python str is a sequence of one-character strings.             *)
(***************************************************************************)
Digits == <<"0", "1", "2", "3", "4", "5", "6", "7", "8", "9">>

RECURSIVE Str(_)
\* str(n) of a non-negative int
Str(n) == IF n < 10 THEN <<Digits[n + 1]>> ELSE Str(n \div 10) \o <<Digits[(n % 10) + 1]>>

RECURSIVE Zfill(_, _)
\* s.zfill(width) of a text without a sign
Zfill(s, width) == IF Len(s) >= width THEN s ELSE Zfill(<<"0">> \o s, width)

RECURSIVE Strip(_)
\* s.strip(): leading and trailing blanks removed
Strip(s) ==
    IF s = <<>> THEN s
    ELSE IF Head(s) = " " THEN Strip(Tail(s))
    ELSE IF s[Len(s)] = " " THEN Strip(SubSeq(s, 1, Len(s) - 1))
    ELSE s

(***************************************************************************)
(* Sample collection, positions_module.py (the frame of __main__.py).      *)
(***************************************************************************)
FILE_ID_WIDTH == 2

\* The edit_* fields after __init__ and after _cancel_edit.
NoEdit == [edit_entry |-> None, edit_data_idx |-> None, edit_data_key |-> "None"]

\* _view_to_cam_coords(x, y), for a video label of the frame's size:
\* video_loop then leaves display_scale = 1.0 and pad_x = pad_y = 0.
ViewToCamCoords(x, y) == <<x, y>>

\* RenumberFiles that renumbers nothing.
RenumberFilesSkipped(samples) == samples

\* _renumber_files()
RenumberFiles(samples) ==
    [i \in 1..Len(samples) |-> [samples[i] EXCEPT !.file = Zfill(Str(i), FILE_ID_WIDTH)]]

\* CommitEdit that writes to the last sample when the index is not below
\* the number of samples.
CommitEditLast(samples, ed) ==
    IF ed.edit_entry = None \/ ed.edit_data_idx = None \/ samples = <<>> THEN samples
    ELSE [samples EXCEPT ![IF ed.edit_data_idx[1] < Len(samples)
                           THEN ed.edit_data_idx[1] + 1 ELSE Len(samples)] =
             IF ed.edit_data_key = "file" THEN [@ EXCEPT !.file = Strip(ed.edit_entry[1])]
             ELSE [@ EXCEPT !.sample_id = Strip(ed.edit_entry[1])]]

\* _commit_edit(): the sample list it leaves (the edit fields become NoEdit).
CommitEdit(samples, ed) ==
    IF ed.edit_entry = None THEN samples
    ELSE LET new_value == Strip(ed.edit_entry[1])
         IN IF ed.edit_data_idx # None /\ ed.edit_data_key # "None"
            THEN IF ed.edit_data_idx[1] < Len(samples)
                 THEN [samples EXCEPT ![ed.edit_data_idx[1] + 1] =
                          IF ed.edit_data_key = "file" THEN [@ EXCEPT !.file = new_value]
                          ELSE [@ EXCEPT !.sample_id = new_value]]
                 ELSE samples
            ELSE samples

\* AddSample with the zero padding of the file index forgotten.
AddSampleUnpadded(samples, corners, point_on_cam) ==
    LET point_in_real_mm == TransformCamToReal(corners, point_on_cam)
    IN IF point_in_real_mm = None THEN samples
       ELSE Append(samples, [file |-> Str(Len(samples) + 1),
                             sample_id |-> <<>>,
                             cam_coords |-> point_on_cam,
                             real_coords |-> point_in_real_mm])

\* The left-click branch of on_mouse_event (lines 213-221).
AddSample(samples, corners, point_on_cam) ==
    LET point_in_real_mm == TransformCamToReal(corners, point_on_cam)
    IN IF point_in_real_mm = None THEN samples
       ELSE Append(samples, [file |-> Zfill(Str(Len(samples) + 1), FILE_ID_WIDTH),
                             sample_id |-> <<>>,
                             cam_coords |-> point_on_cam,
                             real_coords |-> point_in_real_mm])

\* The right-click branch of on_mouse_event (lines 222-232).
RemoveSample(samples, point_on_cam, z) ==
    LET i == SampleToRemove(samples, point_on_cam, z)
    IN IF i = 0 THEN samples ELSE RenumberFiles(RemoveAt(samples, i))

\* tk_to_cv2_map.get((event.type, btn_num)), NoEvent for a missing key.
TkToCv2(type, btn_num) ==
    IF type = "ButtonPress" /\ btn_num = 2 THEN EVENT_MBUTTONDOWN
    ELSE IF type = "ButtonRelease" /\ btn_num = 2 THEN EVENT_MBUTTONUP
    ELSE IF type = "Motion" /\ btn_num = 2 THEN EVENT_MOUSEMOVE
    ELSE IF type = "MouseWheel" /\ btn_num = 0 THEN EVENT_MOUSEWHEEL
    ELSE NoEvent

\* OnMouseEvent without "if self.edit_entry: self._commit_edit()": the open
\* edit stays as it is while the click adds or removes a sample.
OnMouseEventEditKept(ui, samples, ed, corners, type, num, x, y, delta) ==
    IF ui = None THEN [ui_state |-> ui, sample_points |-> samples, edit |-> ed]
    ELSE
    LET cam == ViewToCamCoords(x, y)
        cam_x == Clip(cam[1], 0, FrameWidth - 1)
        cam_y == Clip(cam[2], 0, FrameHeight - 1)
        click == IF type = "ButtonPress" /\ num = 1 THEN EVENT_LBUTTONDOWN
                 ELSE IF type = "ButtonPress" /\ num = 3 THEN EVENT_RBUTTONDOWN
                 ELSE NoEvent
        ui1 == IF click = NoEvent THEN ui[1] ELSE HandleViewControls(ui[1], click, cam_x, cam_y, 0)
        point_on_cam == PointOnFrame(ui[1], click, cam_x, cam_y, 0)
        samples1 == IF click = EVENT_LBUTTONDOWN THEN AddSample(samples, corners, point_on_cam)
                    ELSE IF click = EVENT_RBUTTONDOWN THEN RemoveSample(samples, point_on_cam, ui1.zoom)
                    ELSE samples
        cv2_event == TkToCv2(type, IF type # "MouseWheel" THEN num ELSE 0)
        ui2 == IF cv2_event # NoEvent /\ cv2_event # 0
               THEN HandleViewControls(ui1, cv2_event, cam_x, cam_y,
                                       IF cv2_event = EVENT_MOUSEWHEEL THEN delta ELSE 0)
               ELSE ui1
    IN [ui_state |-> Some(ui2), sample_points |-> samples1, edit |-> ed]

\* on_mouse_event(event): the ui_state, sample list and edit fields it leaves.
OnMouseEvent(ui, samples, ed, corners, type, num, x, y, delta) ==
    IF ui = None THEN [ui_state |-> ui, sample_points |-> samples, edit |-> ed]
    ELSE
    LET committed == CommitEdit(samples, ed)
        cam == ViewToCamCoords(x, y)
        cam_x == Clip(cam[1], 0, FrameWidth - 1)
        cam_y == Clip(cam[2], 0, FrameHeight - 1)
        click == IF type = "ButtonPress" /\ num = 1 THEN EVENT_LBUTTONDOWN
                 ELSE IF type = "ButtonPress" /\ num = 3 THEN EVENT_RBUTTONDOWN
                 ELSE NoEvent
        ui1 == IF click = NoEvent THEN ui[1] ELSE HandleViewControls(ui[1], click, cam_x, cam_y, 0)
        point_on_cam == PointOnFrame(ui[1], click, cam_x, cam_y, 0)
        samples1 == IF click = EVENT_LBUTTONDOWN THEN AddSample(committed, corners, point_on_cam)
                    ELSE IF click = EVENT_RBUTTONDOWN THEN RemoveSample(committed, point_on_cam, ui1.zoom)
                    ELSE committed
        btn_num == IF type # "MouseWheel" THEN num ELSE 0
        cv2_event == TkToCv2(type, btn_num)
        flags == IF cv2_event = EVENT_MOUSEWHEEL THEN delta ELSE 0
        \* "if cv2_event:" is false for None and for EVENT_MOUSEMOVE, which is 0
        ui2 == IF cv2_event # NoEvent /\ cv2_event # 0
               THEN HandleViewControls(ui1, cv2_event, cam_x, cam_y, flags) ELSE ui1
    IN [ui_state |-> Some(ui2), sample_points |-> samples1, edit |-> NoEdit]

(***************************************************************************)
(* Sample collection, sample_positions_module.py (the frame of app.py).    *)
(***************************************************************************)
\* event_map.get(event.type), NoEvent for a missing key.
EventMap(type) ==
    IF type = "ButtonPress" THEN EVENT_MBUTTONDOWN
    ELSE IF type = "ButtonRelease" THEN EVENT_MBUTTONUP
    ELSE IF type = "Motion" THEN EVENT_MOUSEMOVE
    ELSE IF type = "MouseWheel" THEN EVENT_MOUSEWHEEL
    ELSE NoEvent

\* The left-click branch: the sample has no file index and no label here.
AddPoint(samples, corners, point_on_cam) ==
    LET point_in_real_mm == TransformCamToReal(corners, point_on_cam)
    IN IF point_in_real_mm = None THEN samples
       ELSE Append(samples, [cam_coords |-> point_on_cam, real_coords |-> point_in_real_mm])

\* The right-click branch.
RemovePoint(samples, point_on_cam, z) ==
    LET i == SampleToRemove(samples, point_on_cam, z)
    IN IF i = 0 THEN samples ELSE RemoveAt(samples, i)

\* on_mouse_event(event) of sample_positions_module.py.
OnMouseEventV1(ui, samples, corners, type, num, x, y, delta) ==
    IF ui = None THEN [ui_state |-> ui, sample_points |-> samples]
    ELSE IF num = 1 /\ type = "ButtonPress" THEN
        [ui_state |-> Some(HandleViewControls(ui[1], EVENT_LBUTTONDOWN, x, y, 0)),
         sample_points |-> AddPoint(samples, corners, PointOnFrame(ui[1], EVENT_LBUTTONDOWN, x, y, 0))]
    ELSE IF num = 3 /\ type = "ButtonPress" THEN
        LET after == HandleViewControls(ui[1], EVENT_RBUTTONDOWN, x, y, 0)
        IN [ui_state |-> Some(after),
            sample_points |-> RemovePoint(samples, PointOnFrame(ui[1], EVENT_RBUTTONDOWN, x, y, 0), after.zoom)]
    ELSE
        LET cv2_event == EventMap(type)
            flags == IF cv2_event = EVENT_MOUSEWHEEL THEN delta ELSE 0
        IN [ui_state |-> IF cv2_event # NoEvent
                         THEN Some(HandleViewControls(ui[1], cv2_event, x, y, flags)) ELSE ui,
            sample_points |-> samples]

\* MoveItemUp that moves the selected sample to the head of the list.
MoveItemToTop(samples, sel) ==
    IF sel = None \/ sel[1] = 0 THEN [sample_points |-> samples, selection |-> sel]
    ELSE [sample_points |-> [samples EXCEPT ![sel[1] + 1] = samples[1], ![1] = samples[sel[1] + 1]],
          selection |-> Some(0)]

\* _move_item_up(): the sample list and the listbox selection it leaves;
\* sel is listbox.curselection(), None for the empty tuple.
MoveItemUp(samples, sel) ==
    IF sel = None THEN [sample_points |-> samples, selection |-> sel]
    ELSE LET idx == sel[1]
         IN IF idx > 0
            THEN [sample_points |-> [samples EXCEPT ![idx + 1] = samples[idx],
                                                    ![idx] = samples[idx + 1]],
                  selection |-> Some(idx - 1)]
            ELSE [sample_points |-> samples, selection |-> sel]

\* _move_item_down()
MoveItemDown(samples, sel) ==
    IF sel = None THEN [sample_points |-> samples, selection |-> sel]
    ELSE LET idx == sel[1]
         IN IF idx < Len(samples) - 1
            THEN [sample_points |-> [samples EXCEPT ![idx + 1] = samples[idx + 2],
                                                    ![idx + 2] = samples[idx + 1]],
                  selection |-> Some(idx + 1)]
            ELSE [sample_points |-> samples, selection |-> sel]

(***************************************************************************)
(* Placement step (placement_module.py).                                   *)
(***************************************************************************)
\* int(a / b) for integers a and b # 0: the quotient truncated toward zero.
TruncDiv(a, b) ==
    IF (a >= 0) = (b > 0) THEN Abs(a) \div Abs(b) ELSE 0 - (Abs(a) \div Abs(b))

\* The determinant D of _calculate_circumcenter.
CircumD(pts) ==
    2 * (pts[1][1] * (pts[2][2] - pts[3][2]) + pts[2][1] * (pts[3][2] - pts[1][2])
         + pts[3][1] * (pts[1][2] - pts[2][2]))

\* The elements of pts_np = np.array(points, dtype=np.int32) are 32-bit
\* integers, and so are the sums and products of two of them: a result
\* outside the signed range wraps around modulo 2^32.
INT_BITS == 32
HalfWord == 2 ^ (INT_BITS \div 2)

\* The signed integer whose upper half word is h modulo HalfWord and whose
\* lower half word is l (0 <= l < HalfWord).
FromHalves(h, l) ==
    LET hw == h % HalfWord
    IN IF hw >= HalfWord \div 2 THEN (hw - HalfWord) * HalfWord + l ELSE hw * HalfWord + l

\* a + b in np.int32.
Add32(a, b) ==
    LET l == (a % HalfWord) + (b % HalfWord)
    IN FromHalves((a \div HalfWord) + (b \div HalfWord) + (l \div HalfWord), l % HalfWord)

\* a * b in np.int32, for b of at most half a word (a coordinate or a
\* difference of two coordinates).
Mul32(a, b) ==
    LET t == (a % HalfWord) * b
    IN FromHalves((a \div HalfWord) * b + (t \div HalfWord), t % HalfWord)

\* The numerators of ux and uy computed in unbounded integers.
CircumNumUnbounded(pts) ==
    LET sq(p) == p[1] * p[1] + p[2] * p[2]
    IN <<sq(pts[1]) * (pts[2][2] - pts[3][2]) + sq(pts[2]) * (pts[3][2] - pts[1][2])
           + sq(pts[3]) * (pts[1][2] - pts[2][2]),
         sq(pts[1]) * (pts[3][1] - pts[2][1]) + sq(pts[2]) * (pts[1][1] - pts[3][1])
           + sq(pts[3]) * (pts[2][1] - pts[1][1])>>

\* The numerators of ux and uy in _calculate_circumcenter, evaluated from
\* left to right in np.int32.
CircumNum(pts) ==
    LET sq(p) == Add32(Mul32(p[1], p[1]), Mul32(p[2], p[2]))
    IN <<Add32(Add32(Mul32(sq(pts[1]), pts[2][2] - pts[3][2]),
                     Mul32(sq(pts[2]), pts[3][2] - pts[1][2])),
               Mul32(sq(pts[3]), pts[1][2] - pts[2][2])),
         Add32(Add32(Mul32(sq(pts[1]), pts[3][1] - pts[2][1]),
                     Mul32(sq(pts[2]), pts[1][1] - pts[3][1])),
               Mul32(sq(pts[3]), pts[2][1] - pts[1][1]))>>

\* CalculateCircumcenter with the test for D == 0 moved behind the
\* division, the quotient by zero read as zero.
CalculateCircumcenterUnchecked(pts) ==
    LET D == CircumD(pts)
    IN IF D = 0 THEN Some(<<0, 0>>)
       ELSE Some(<<TruncDiv(CircumNum(pts)[1], D), TruncDiv(CircumNum(pts)[2], D)>>)

\* CalculateCircumcenter with ux and uy exchanged in the result.
CalculateCircumcenterSwapped(pts) ==
    LET D == CircumD(pts)
    IN IF D = 0 THEN None
       ELSE Some(<<TruncDiv(CircumNum(pts)[2], D), TruncDiv(CircumNum(pts)[1], D)>>)

\* _calculate_circumcenter(pts): None, or Some((int(ux), int(uy))).
CalculateCircumcenter(pts) ==
    LET D == CircumD(pts)
    IN IF D = 0 THEN None
       ELSE Some(<<TruncDiv(CircumNum(pts)[1], D), TruncDiv(CircumNum(pts)[2], D)>>)

\* ArgSortX in descending order of x.
ArgSortXDescending(pts) ==
    CHOOSE o \in {<<1, 2, 3>>, <<1, 3, 2>>, <<2, 1, 3>>, <<2, 3, 1>>, <<3, 1, 2>>, <<3, 2, 1>>} :
        \A i \in 1..2 : \/ pts[o[i]][1] > pts[o[i + 1]][1]
                        \/ pts[o[i]][1] = pts[o[i + 1]][1] /\ o[i] < o[i + 1]

\* np.argsort(pts_np[:, 0]) on three points: the indices in the order of
\* their x, equal x in index order.
ArgSortX(pts) ==
    CHOOSE o \in {<<1, 2, 3>>, <<1, 3, 2>>, <<2, 1, 3>>, <<2, 3, 1>>, <<3, 1, 2>>, <<3, 2, 1>>} :
        \A i \in 1..2 : \/ pts[o[i]][1] < pts[o[i + 1]][1]
                        \/ pts[o[i]][1] = pts[o[i + 1]][1] /\ o[i] < o[i + 1]

\* angle = np.degrees(np.arctan2(dy, dx)) + 5: the offset in degrees.
ANGLE_OFFSET == 5

\* What one call of _calculate_and_draw_rectangle(frame, points) draws: the
\* three points, the crosshair at the circumcenter, the dotted line from
\* p_mid to p_right, and the rectangle, whose angle is kept as the vector
\* (dx, dy) given to arctan2 and the offset added to the result.
NothingDrawn ==
    [points |-> FALSE, center |-> None, line |-> None, angle |-> None, rectangle |-> FALSE]

CalculateAndDrawRectangle(points) ==
    IF Len(points) # 3 THEN NothingDrawn
    ELSE LET center == CalculateCircumcenter(points)
             sorted_indices == ArgSortX(points)
             p_mid == points[sorted_indices[2]]
             p_right == points[sorted_indices[3]]
         IN IF center = None THEN [NothingDrawn EXCEPT !.points = TRUE]
            ELSE [points |-> TRUE, center |-> center, line |-> Some(<<p_mid, p_right>>),
                  angle |-> Some([dx |-> p_right[1] - p_mid[1], dy |-> p_right[2] - p_mid[2],
                                  offset |-> ANGLE_OFFSET]),
                  rectangle |-> TRUE]

\* PlacementUIState.__init__, with the position of place_rectangle ("idle"
\* before the call, "loop", "done"), what the latest tick drew (None before
\* the first tick) and the value returned.
PlacementInitState ==
    [hover_target |-> "none", back_clicked |-> FALSE, next_clicked |-> FALSE,
     pc |-> "idle", drawn |-> None, returned |-> None]

\* Calibration points of an earlier calibration step.
CalibratedBefore == <<<<100, 60>>, <<230, 60>>, <<100, 180>>>>

(***************************************************************************)
(* The environment: where the pointer goes and what the placement step     *)
(* hands over.                                                             *)
(***************************************************************************)
WheelFlags == {0 - 1, 1}        \* sign of the wheel flags / event.delta
BottomRow == HEADER_HEIGHT + FrameHeight - 1

ResetCentre == <<PADDING + BUTTON_WIDTH \div 2, PADDING + BUTTON_HEIGHT \div 2>>
NextCentre == <<FrameWidth - PADDING - BUTTON_WIDTH \div 2, PADDING + BUTTON_HEIGHT \div 2>>
HeaderGap == <<FrameWidth \div 2, PADDING + BUTTON_HEIGHT \div 2>>

\* Calibration window: the two buttons, the header between them, and two
\* image positions ten pixels apart.
CalPts == {ResetCentre, HeaderGap, NextCentre,
           <<FrameWidth - 120, BottomRow>>, <<FrameWidth - 110, BottomRow>>}

\* Calibration window, long zoom runs: two image positions far apart.
CalViewPts == {<<FrameWidth - 120, BottomRow>>, <<FrameWidth - 20, BottomRow>>}

\* Video label, long zoom runs.
LabelViewPts == {<<FrameWidth - 120, FrameHeight - 1>>, <<FrameWidth - 20, FrameHeight - 1>>}

\* An upright rectangle of 130 x 120 pixels and one turned by atan(3/4),
\* corners in the order cv2.boxPoints gives them.
RectUpright == <<<<100, 180>>, <<100, 60>>, <<230, 60>>, <<230, 180>>>>
RectTurned == <<<<48, 116>>, <<120, 20>>, <<224, 98>>, <<152, 194>>>>
Rects == {None, RectUpright, RectTurned}

\* The corners cv2.boxPoints and np.int32 give for the same rectangle turned
\* by 45 degrees about (200, 120), and four corners fallen into one point.
RectDiamond == <<<<111, 123>>, <<203, 31>>, <<288, 116>>, <<196, 208>>>>
RectCollapsed == <<<<100, 60>>, <<100, 60>>, <<100, 60>>, <<100, 60>>>>
MapperRects == {RectUpright, RectTurned, RectDiamond, RectCollapsed}

\* Video label: positions inside the rectangles, two of their corners, and
\* one position outside all of them.
MapperPts == {<<200, 110>>, <<150, 100>>, <<230, 180>>, <<120, 20>>,
              <<FrameWidth - 20, FrameHeight - 1>>}

\* Video label: two positions ten pixels apart inside both rectangles' reach,
\* a corner of the upright rectangle, and a position outside both.
LabelPts == {<<200, 170>>, <<210, 170>>, <<230, 180>>, <<FrameWidth - 20, FrameHeight - 1>>}

\* What the user may type into the table's entry.
EntryTexts == {<<"A">>, <<" ", "0", "1", " ">>}

CalEvents == {EVENT_MOUSEMOVE, EVENT_LBUTTONDOWN, EVENT_RBUTTONDOWN, EVENT_MBUTTONDOWN,
              EVENT_MBUTTONUP, EVENT_MOUSEWHEEL}
CalViewEvents == {EVENT_MOUSEMOVE, EVENT_MBUTTONDOWN, EVENT_MBUTTONUP, EVENT_MOUSEWHEEL}

FlagsOf(event) == IF event = EVENT_MOUSEWHEEL THEN WheelFlags ELSE {0}

\* The pointer event is within the run's budget.
Allowed(p, event) ==
    /\ p = pointer \/ jumpsLeft > 0
    /\ event = EVENT_MOUSEWHEEL => wheelLeft # 0

\* Bookkeeping of a delivered pointer event.
Delivered(p, event) ==
    /\ pointer' = p
    /\ last' = event
    /\ jumpsLeft' = IF p = pointer THEN jumpsLeft ELSE jumpsLeft - 1
    /\ wheelLeft' = IF event = EVENT_MOUSEWHEEL /\ wheelLeft > 0 THEN wheelLeft - 1 ELSE wheelLeft
    /\ call' = NoCall
    /\ UNCHANGED editsLeft

(***************************************************************************)
(* Actions of the calibration step.                                        *)
(***************************************************************************)
\* One mouse event handled by _mouse_callback inside cv2.waitKey.
CalMouse(event, p, flags) ==
    /\ program = "calibration"
    /\ cal_pc = "loop"
    /\ Allowed(p, event)
    /\ state' = CalMouseCallback(state, event, p[1], p[2], flags)
    /\ anchor' = IF event = EVENT_MBUTTONDOWN /\ p[2] >= HEADER_HEIGHT
                 THEN Some(ToSourceFrame(state.pan_offset, state.zoom, <<p[1], p[2] - HEADER_HEIGHT>>))
                 ELSE IF event = EVENT_MBUTTONUP THEN None ELSE anchor
    /\ Delivered(p, event)
    /\ UNCHANGED <<video, calibrated_points, placement, selection, program, cal_pc, result, ui_state, sample_points,
                   final_rectangle_corners, shown, edit, b2_held>>

\* "while not state.confirmed" ends the loop; state.points is returned.
CalReturnPoints ==
    /\ program = "calibration"
    /\ cal_pc = "loop"
    /\ state.confirmed
    /\ cal_pc' = "done"
    /\ result' = <<"points", state.points>>
    /\ last' = NoEvent
    /\ call' = NoCall
    /\ UNCHANGED <<video, calibrated_points, placement, anchor, selection, program, state, ui_state, sample_points, final_rectangle_corners,
                   shown, edit, b2_held, pointer, jumpsLeft, wheelLeft, editsLeft>>

\* The 'q' key, or a failed cap.read() while not confirmed: None is
\* returned (the UIState object is dropped with the return).
CalQuit ==
    /\ program = "calibration"
    /\ cal_pc = "loop"
    /\ cal_pc' = "done"
    /\ result' = <<"None">>
    /\ last' = NoEvent
    /\ call' = NoCall
    /\ UNCHANGED <<video, calibrated_points, placement, anchor, selection, program, state, ui_state, sample_points, final_rectangle_corners,
                   shown, edit, b2_held, pointer, jumpsLeft, wheelLeft, editsLeft>>

(***************************************************************************)
(* Actions of the sample-collection frames.                                *)
(***************************************************************************)
\* The frame after __init__: not active, no video_loop callback scheduled.
VideoInitState == [is_active |-> FALSE, pending |-> 0]

\* video_loop() run as the callback of one after(15, self.video_loop): the
\* callback is consumed; it returns at the first line when the frame is not
\* active or has no ui_state, and else ends in another after(15, ...).
VideoLoopStep(v, ui) ==
    IF ~v.is_active \/ ui = None THEN [v EXCEPT !.pending = @ - 1]
    ELSE v

\* on_show(): self._is_active = True, and at its end self.video_loop(),
\* called directly, which schedules a callback unless ui_state is None.
OnShowVideo(v, ui) ==
    [is_active |-> TRUE, pending |-> IF ui = None THEN v.pending ELSE v.pending + 1]

\* on_hide(): self._is_active = False
OnHideVideo(v) == [v EXCEPT !.is_active = FALSE]

\* The timer runs one scheduled video_loop callback.
VideoLoop ==
    /\ program \in {"positions", "sample_positions"}
    /\ shown # "closed"
    /\ video.pending > 0
    /\ video' = VideoLoopStep(video, ui_state)
    /\ last' = NoEvent
    /\ call' = <<"video_loop">>
    /\ UNCHANGED <<calibrated_points, placement, anchor, selection, program, state, cal_pc, result,
                   ui_state, sample_points, final_rectangle_corners, shown, edit, b2_held,
                   pointer, jumpsLeft, wheelLeft, editsLeft>>

\* OnShowSamples that keeps the samples of the previous visit.
OnShowSamplesKept(samples) == samples

\* on_show(): self.sample_points = []
OnShowSamples(samples) == <<>>

\* placement_complete('success', rectangle_data) of the controller, with the
\* show_frame and on_show it calls; ret is what cap.read() reports.
PlacementSuccess(rectangle_data, ret) ==
    /\ program \in {"positions", "sample_positions"}
    /\ shown = "PlacementFrame"
    /\ final_rectangle_corners' = rectangle_data
    /\ shown' = "SamplePositionsFrame"
    /\ sample_points' = OnShowSamples(sample_points)
    /\ edit' = NoEdit
    /\ ui_state' = IF ret THEN Some(BaseUIState) ELSE ui_state
    /\ video.pending < MaxPending
    /\ video' = OnShowVideo(video, ui_state')
    /\ last' = NoEvent
    /\ call' = <<"placement_complete", "success">>
    /\ selection' = None
    /\ UNCHANGED <<calibrated_points, placement, anchor, program, state, cal_pc, result, b2_held, pointer, jumpsLeft, wheelLeft, editsLeft>>

\* A <Button> event on the video label of positions_module.py, the only
\* pointer event its bindings pass to on_mouse_event.
PosButton(num, p) ==
    LET event == IF num = 1 THEN EVENT_LBUTTONDOWN
                 ELSE IF num = 3 THEN EVENT_RBUTTONDOWN ELSE EVENT_MBUTTONDOWN
    IN /\ program = "positions"
       /\ shown = "SamplePositionsFrame"
       /\ Allowed(p, event)
       /\ num = 1 => Len(sample_points) < MaxSamples
       /\ \E out \in {OnMouseEvent(ui_state, sample_points, edit, final_rectangle_corners,
                                    "ButtonPress", num, p[1], p[2], 0)} :
             /\ ui_state' = out.ui_state
             /\ sample_points' = out.sample_points
             /\ edit' = out.edit
       /\ anchor' = IF event = EVENT_MBUTTONDOWN /\ ui_state # None
                    THEN Some(ToSourceFrame(ui_state[1].pan_offset, ui_state[1].zoom,
                                            <<Clip(p[1], 0, FrameWidth - 1), Clip(p[2], 0, FrameHeight - 1)>>))
                    ELSE anchor
       /\ Delivered(p, event)
       /\ UNCHANGED <<video, calibrated_points, placement, selection, program, state, cal_pc, result,
                      final_rectangle_corners, shown, b2_held>>

\* _on_tree_double_click on the cell (row, column); row = None is a double
\* click that identify_row maps to no row.
TreeDoubleClick(row, column) ==
    LET committed == CommitEdit(sample_points, edit)
        opens == column \in {"#1", "#2"} /\ row # None
        key == IF column = "#1" THEN "file" ELSE "sample_id"
    IN /\ program = "positions"
       /\ shown = "SamplePositionsFrame"
       /\ row # None => row[1] < Len(sample_points)
       /\ opens => editsLeft > 0
       /\ sample_points' = committed
       /\ edit' = IF opens
                  THEN [edit_entry |-> Some(IF key = "file" THEN committed[row[1] + 1].file
                                            ELSE committed[row[1] + 1].sample_id),
                        edit_data_idx |-> row, edit_data_key |-> key]
                  ELSE NoEdit
       /\ editsLeft' = IF opens THEN editsLeft - 1 ELSE editsLeft
       /\ last' = NoEvent
       /\ call' = NoCall
       /\ UNCHANGED <<video, calibrated_points, placement, anchor, selection, program, state, cal_pc, result, ui_state, final_rectangle_corners,
                      shown, b2_held, pointer, jumpsLeft, wheelLeft>>

\* The user types into the open entry.
TypeEntry(text) ==
    /\ program = "positions"
    /\ shown = "SamplePositionsFrame"
    /\ edit.edit_entry # None
    /\ edit' = [edit EXCEPT !.edit_entry = Some(text)]
    /\ last' = NoEvent
    /\ call' = NoCall
    /\ UNCHANGED <<video, calibrated_points, placement, anchor, selection, program, state, cal_pc, result, ui_state, sample_points,
                   final_rectangle_corners, shown, b2_held, pointer,
                   jumpsLeft, wheelLeft, editsLeft>>

\* <Return> or <FocusOut> in the entry: _commit_edit.
EntryCommit ==
    /\ program = "positions"
    /\ shown = "SamplePositionsFrame"
    /\ edit.edit_entry # None
    /\ sample_points' = CommitEdit(sample_points, edit)
    /\ edit' = NoEdit
    /\ last' = NoEvent
    /\ call' = NoCall
    /\ UNCHANGED <<video, calibrated_points, placement, anchor, selection, program, state, cal_pc, result, ui_state, final_rectangle_corners,
                   shown, b2_held, pointer, jumpsLeft, wheelLeft, editsLeft>>

\* _push_data, the command of the Save button, enabled while there are
\* samples: an open edit is committed; the rest of the handler reads the
\* samples and writes the files.
PushData ==
    /\ program = "positions"
    /\ shown = "SamplePositionsFrame"
    /\ Len(sample_points) > 0
    /\ sample_points' = CommitEdit(sample_points, edit)
    /\ edit' = NoEdit
    /\ last' = NoEvent
    /\ call' = <<"_push_data">>
    /\ UNCHANGED <<video, calibrated_points, placement, anchor, selection, program, state, cal_pc, result, ui_state, final_rectangle_corners,
                   shown, b2_held, pointer, jumpsLeft, wheelLeft, editsLeft>>

\* <Escape> in the entry: _cancel_edit.
EntryCancel ==
    /\ program = "positions"
    /\ shown = "SamplePositionsFrame"
    /\ edit.edit_entry # None
    /\ edit' = NoEdit
    /\ last' = NoEvent
    /\ call' = NoCall
    /\ UNCHANGED <<video, calibrated_points, placement, anchor, selection, program, state, cal_pc, result, ui_state, sample_points,
                   final_rectangle_corners, shown, b2_held, pointer,
                   jumpsLeft, wheelLeft, editsLeft>>

\* _reset_points, the left button's command while there are samples; answer
\* is what messagebox.askyesno returns.
ResetPoints(answer) ==
    /\ program = "positions"
    /\ shown = "SamplePositionsFrame"
    /\ Len(sample_points) > 0
    /\ edit' = NoEdit
    /\ sample_points' = IF answer THEN <<>> ELSE sample_points
    /\ last' = NoEvent
    /\ call' = NoCall
    /\ UNCHANGED <<video, calibrated_points, placement, anchor, selection, program, state, cal_pc, result, ui_state, final_rectangle_corners,
                   shown, b2_held, pointer, jumpsLeft, wheelLeft, editsLeft>>

\* on_back: in positions_module.py the left button's command while there
\* are no samples, in sample_positions_module.py the Back button's.  It
\* ends in the controller's sample_positions_complete('back').
OnBack ==
    /\ program \in {"positions", "sample_positions"}
    /\ shown = "SamplePositionsFrame"
    /\ program = "positions" => Len(sample_points) = 0
    /\ edit' = NoEdit
    /\ video' = OnHideVideo(video)
    /\ shown' = "PlacementFrame"
    /\ last' = NoEvent
    /\ call' = <<"sample_positions_complete", "back">>
    /\ UNCHANGED <<calibrated_points, placement, anchor, selection, program, state, cal_pc, result, ui_state, sample_points,
                   final_rectangle_corners, b2_held, pointer,
                   jumpsLeft, wheelLeft, editsLeft>>

\* A pointer event on the video label of sample_positions_module.py, as its
\* five bindings deliver them: any button press, the middle button's
\* release and drag, and the wheel.
LabelEvent(type, num, p, delta) ==
    LET event == IF type = "ButtonPress" /\ num = 1 THEN EVENT_LBUTTONDOWN
                 ELSE IF type = "ButtonPress" /\ num = 3 THEN EVENT_RBUTTONDOWN
                 ELSE EventMap(type)
    IN /\ program = "sample_positions"
       /\ shown = "SamplePositionsFrame"
       /\ Allowed(p, event)
       /\ event = EVENT_LBUTTONDOWN => Len(sample_points) < MaxSamples
       /\ type = "ButtonPress" /\ num = 2 => ~b2_held
       /\ type \in {"ButtonRelease", "Motion"} => b2_held
       /\ \E out \in {OnMouseEventV1(ui_state, sample_points, final_rectangle_corners,
                                      type, num, p[1], p[2], delta)} :
             /\ ui_state' = out.ui_state
             /\ sample_points' = out.sample_points
             \* _update_sidebar_list empties and refills the listbox
             /\ selection' = IF out.sample_points # sample_points THEN None ELSE selection
       /\ anchor' = IF event = EVENT_MBUTTONDOWN /\ ui_state # None
                    THEN Some(ToSourceFrame(ui_state[1].pan_offset, ui_state[1].zoom, p))
                    ELSE IF event = EVENT_MBUTTONUP THEN None ELSE anchor
       /\ b2_held' = IF type = "ButtonPress" /\ num = 2 THEN TRUE
                     ELSE IF type = "ButtonRelease" THEN FALSE ELSE b2_held
       /\ Delivered(p, event)
       /\ UNCHANGED <<video, calibrated_points, placement, program, state, cal_pc, result,
                      final_rectangle_corners, shown, edit>>

\* The Tk events the bindings of sample_positions_module.py deliver: type,
\* event.num (0 where Tk gives none) and event.delta.
LabelEvents ==
    {<<"ButtonPress", 1, 0>>, <<"ButtonPress", 2, 0>>, <<"ButtonPress", 3, 0>>,
     <<"ButtonRelease", 2, 0>>, <<"Motion", 0, 0>>,
     <<"MouseWheel", 0, 120>>, <<"MouseWheel", 0, 0 - 120>>}
LabelViewEvents ==
    {e \in LabelEvents : ~(e[1] = "ButtonPress" /\ e[2] \in {1, 3})}

\* The user picks row idx of the listbox.
ListboxSelect(idx) ==
    /\ program = "sample_positions"
    /\ shown = "SamplePositionsFrame"
    /\ idx < Len(sample_points)
    /\ selection' = Some(idx)
    /\ last' = NoEvent
    /\ call' = <<"_on_listbox_select">>
    /\ UNCHANGED <<video, calibrated_points, placement, anchor, program, state, cal_pc, result,
                   ui_state, sample_points, final_rectangle_corners, shown, edit, b2_held,
                   pointer, jumpsLeft, wheelLeft, editsLeft>>

\* The command of the up button (up = TRUE) or of the down button.
MoveItem(up) ==
    /\ program = "sample_positions"
    /\ shown = "SamplePositionsFrame"
    /\ \E out \in {IF up THEN MoveItemUp(sample_points, selection)
                    ELSE MoveItemDown(sample_points, selection)} :
          /\ sample_points' = out.sample_points
          /\ selection' = out.selection
    /\ last' = NoEvent
    /\ call' = IF up THEN <<"_move_item_up">> ELSE <<"_move_item_down">>
    /\ UNCHANGED <<video, calibrated_points, placement, anchor, program, state, cal_pc, result,
                   ui_state, final_rectangle_corners, shown, edit, b2_held,
                   pointer, jumpsLeft, wheelLeft, editsLeft>>

(***************************************************************************)
(* Actions of the placement step.                                          *)
(***************************************************************************)
back_button_rect == <<PADDING, PADDING, BUTTON_WIDTH, BUTTON_HEIGHT>>

\* PlacementUIState.check_hover
PlacementCheckHover(x, y) ==
    IF IsPointInRect(x, y, back_button_rect) THEN "back"
    ELSE IF IsPointInRect(x, y, next_button_rect) THEN "next"
    ELSE "none"

\* _mouse_callback of placement_module.py
PlacementMouseCallback(st, event, x, y) ==
    IF ~(y < HEADER_HEIGHT) THEN st
    ELSE IF event = EVENT_MOUSEMOVE THEN [st EXCEPT !.hover_target = PlacementCheckHover(x, y)]
    ELSE IF event = EVENT_LBUTTONDOWN THEN
        IF st.hover_target = "back" THEN [st EXCEPT !.back_clicked = TRUE]
        ELSE IF st.hover_target = "next" THEN [st EXCEPT !.next_clicked = TRUE]
        ELSE st
    ELSE st

\* One pass of the loop of place_rectangle up to cv2.imshow: ret is what
\* cap.read() reports; a failed read leaves the loop and None is returned
\* (no button was clicked, or the loop would have ended).
PlaceTick(ret) ==
    /\ program = "placement"
    /\ placement.pc = "loop"
    /\ ~(placement.back_clicked \/ placement.next_clicked)
    /\ placement' = IF ret
                    THEN [placement EXCEPT !.drawn = Some(CalculateAndDrawRectangle(calibrated_points[1]))]
                    ELSE [placement EXCEPT !.pc = "done", !.returned = Some("None")]
    /\ last' = NoEvent
    /\ call' = NoCall
    /\ UNCHANGED <<video, calibrated_points, anchor, selection, program, state, cal_pc, result, ui_state,
                   sample_points, final_rectangle_corners, shown, edit, b2_held, pointer,
                   jumpsLeft, wheelLeft, editsLeft>>

\* A mouse event handled by _mouse_callback inside cv2.waitKey.
PlaceMouse(event, p) ==
    /\ program = "placement"
    /\ placement.pc = "loop"
    /\ Allowed(p, event)
    /\ placement' = PlacementMouseCallback(placement, event, p[1], p[2])
    /\ Delivered(p, event)
    /\ UNCHANGED <<video, calibrated_points, anchor, selection, program, state, cal_pc, result, ui_state,
                   sample_points, final_rectangle_corners, shown, edit, b2_held>>

\* The 'q' key: place_rectangle returns None.
PlaceQuit ==
    /\ program = "placement"
    /\ placement.pc = "loop"
    /\ placement' = [placement EXCEPT !.pc = "done", !.returned = Some("None")]
    /\ last' = NoEvent
    /\ call' = NoCall
    /\ UNCHANGED <<video, calibrated_points, anchor, selection, program, state, cal_pc, result, ui_state,
                   sample_points, final_rectangle_corners, shown, edit, b2_held, pointer,
                   jumpsLeft, wheelLeft, editsLeft>>

\* "while not (state.back_clicked or state.next_clicked)" ends the loop.
PlaceReturn ==
    /\ program = "placement"
    /\ placement.pc = "loop"
    /\ placement.back_clicked \/ placement.next_clicked
    /\ placement' = [placement EXCEPT !.pc = "done",
                        !.returned = Some(IF placement.back_clicked THEN "back" ELSE "success")]
    /\ last' = NoEvent
    /\ call' = NoCall
    /\ UNCHANGED <<video, calibrated_points, anchor, selection, program, state, cal_pc, result, ui_state,
                   sample_points, final_rectangle_corners, shown, edit, b2_held, pointer,
                   jumpsLeft, wheelLeft, editsLeft>>

(***************************************************************************)
(* The controller's state transition callbacks (__main__.py, app.py).      *)
(***************************************************************************)
\* PlacementCompleteTarget that takes 'back' for 'success'.
PlacementCompleteForward(status) ==
    IF status \in {"success", "back"} THEN "SamplePositionsFrame" ELSE "closed"

\* The frame each callback raises, "closed" where it calls on_closing.
CalibrationCompleteTarget(points) ==
    IF points # <<>> THEN "PlacementFrame" ELSE "closed"

PlacementCompleteTarget(status) ==
    IF status = "success" THEN "SamplePositionsFrame"
    ELSE IF status = "back" THEN "CalibrationFrame" ELSE "closed"

SamplePositionsCompleteTarget(status) ==
    IF status = "success" THEN "closed"
    ELSE IF status = "back" THEN "PlacementFrame" ELSE "closed"

\* The calibration frame, while it is shown, is the caller of
\* calibration_complete, and the placement frame that of placement_complete.
CalibrationFrameCalls == shown = "CalibrationFrame"
PlacementFrameCalls == shown = "PlacementFrame"

\* calibration_complete(points)
CalibrationComplete(points) ==
    /\ program \in {"positions", "sample_positions"}
    /\ CalibrationFrameCalls
    /\ calibrated_points' = IF points # <<>> THEN Some(points) ELSE calibrated_points
    /\ shown' = CalibrationCompleteTarget(points)
    /\ last' = NoEvent
    /\ call' = <<"calibration_complete", IF points # <<>> THEN "points" ELSE "empty">>
    /\ UNCHANGED <<video, placement, anchor, selection, program, state, cal_pc, result, ui_state,
                   sample_points, final_rectangle_corners, edit, b2_held, pointer,
                   jumpsLeft, wheelLeft, editsLeft>>

\* placement_complete(status, rectangle_data) for a status other than
\* 'success'.
PlacementComplete(status) ==
    /\ program \in {"positions", "sample_positions"}
    /\ PlacementFrameCalls
    /\ status # "success"
    /\ shown' = PlacementCompleteTarget(status)
    /\ last' = NoEvent
    /\ call' = <<"placement_complete", status>>
    /\ UNCHANGED <<video, calibrated_points, placement, anchor, selection, program, state, cal_pc,
                   result, ui_state, sample_points, final_rectangle_corners, edit, b2_held,
                   pointer, jumpsLeft, wheelLeft, editsLeft>>

\* sample_positions_complete(status) for a status other than 'back', which
\* no frame passes: the callback is open to any caller.
SamplePositionsComplete(status) ==
    /\ program \in {"positions", "sample_positions"}
    /\ shown = "SamplePositionsFrame"
    /\ status # "back"
    /\ shown' = SamplePositionsCompleteTarget(status)
    /\ last' = NoEvent
    /\ call' = <<"sample_positions_complete", status>>
    /\ UNCHANGED <<video, calibrated_points, placement, anchor, selection, program, state, cal_pc,
                   result, ui_state, sample_points, final_rectangle_corners, edit, b2_held,
                   pointer, jumpsLeft, wheelLeft, editsLeft>>

\* on_closing, bound to the window's close button.
OnClosing ==
    /\ program \in {"positions", "sample_positions"}
    /\ shown # "closed"
    /\ shown' = "closed"
    /\ last' = NoEvent
    /\ call' = <<"on_closing">>
    /\ UNCHANGED <<video, calibrated_points, placement, anchor, selection, program, state, cal_pc,
                   result, ui_state, sample_points, final_rectangle_corners, edit, b2_held,
                   pointer, jumpsLeft, wheelLeft, editsLeft>>

(***************************************************************************)
(* Specifications.                                                         *)
(***************************************************************************)
InitCommon ==
    /\ video = VideoInitState
    /\ state = CalInitState
    /\ cal_pc = "loop"
    /\ result = <<"running">>
    /\ ui_state = None
    /\ sample_points = <<>>
    /\ final_rectangle_corners = None
    /\ shown = IF program = "calibration" THEN "CalibrationFrame" ELSE "PlacementFrame"
    /\ edit = NoEdit
    /\ b2_held = FALSE
    /\ pointer = Nowhere
    /\ last = NoEvent
    /\ placement = [PlacementInitState EXCEPT !.pc = IF program = "placement" THEN "loop" ELSE "idle"]
    /\ call = NoCall
    /\ anchor = None
    /\ selection = None

\* The calibration step with every event kind and few wheel events.
Init ==
    /\ program = "calibration"
    /\ InitCommon
    /\ calibrated_points = IF program = "calibration" THEN None ELSE Some(CalibratedBefore)
    /\ jumpsLeft = MaxJumps
    /\ wheelLeft = MaxWheel
    /\ editsLeft = 0

Next ==
    \/ \E event \in CalEvents, p \in CalPts : \E flags \in FlagsOf(event) : CalMouse(event, p, flags)
    \/ CalReturnPoints
    \/ CalQuit

Spec == Init /\ [][Next]_vars

\* The two sample-collection frames with every event their bindings
\* deliver and few wheel events.
InitFrames ==
    /\ program \in {"sample_positions", "positions"}
    /\ InitCommon
    /\ calibrated_points = IF program = "calibration" THEN None ELSE Some(CalibratedBefore)
    /\ jumpsLeft = MaxLabelJumps
    /\ wheelLeft = MaxWheel
    /\ editsLeft = MaxEdits

NextFrames ==
    \/ \E rectangle_data \in Rects, ret \in BOOLEAN :
          program = "positions" /\ PlacementSuccess(rectangle_data, ret)
    \/ program = "sample_positions" /\ PlacementSuccess(RectUpright, TRUE)
    \/ \E num \in {1, 2, 3}, p \in LabelPts : PosButton(num, p)
    \/ \E row \in {None} \cup {Some(i) : i \in 0..(MaxSamples - 1)}, column \in {"#1", "#2", "#3"} :
          TreeDoubleClick(row, column)
    \/ \E text \in EntryTexts : TypeEntry(text)
    \/ EntryCommit
    \/ EntryCancel
    \/ PushData
    \/ \E answer \in BOOLEAN : ResetPoints(answer)
    \/ OnBack
    \/ \E e \in LabelEvents, p \in LabelPts : LabelEvent(e[1], e[2], p, e[3])

SpecFrames == InitFrames /\ [][NextFrames]_vars

\* Runs that only pan and zoom: no bound on the wheel events.
InitView ==
    /\ program \in {"calibration", "sample_positions"}
    /\ InitCommon
    /\ calibrated_points = IF program = "calibration" THEN None ELSE Some(CalibratedBefore)
    /\ jumpsLeft = MaxViewJumps
    /\ wheelLeft = Unlimited
    /\ editsLeft = 0

NextView ==
    \/ \E event \in CalViewEvents, p \in CalViewPts : \E flags \in FlagsOf(event) :
          CalMouse(event, p, flags)
    \/ PlacementSuccess(RectUpright, TRUE)
    \/ \E e \in LabelViewEvents, p \in LabelViewPts : LabelEvent(e[1], e[2], p, e[3])

SpecView == InitView /\ [][NextView]_vars

\* The placement step for every triple of calibration points on a small grid.
Coords == 0..MaxCoord
GridPoints == {<<x, y>> : x \in Coords, y \in Coords}
PlaceHeaderPts == {ResetCentre, HeaderGap, NextCentre}

InitSolver ==
    /\ program = "placement"
    /\ InitCommon
    /\ \E p1 \in GridPoints, p2 \in GridPoints, p3 \in GridPoints :
          calibrated_points = Some(<<p1, p2, p3>>)
    /\ jumpsLeft = 0
    /\ wheelLeft = 0
    /\ editsLeft = 0

NextSolver ==
    \/ \E ret \in BOOLEAN : PlaceTick(ret)
    \/ PlaceQuit

SpecSolver == InitSolver /\ [][NextSolver]_vars

\* Left and right clicks in the sample-collection frames for every
\* rectangle the placement step may hand over.
InitMapper ==
    /\ program \in {"sample_positions", "positions"}
    /\ InitCommon
    /\ calibrated_points = Some(CalibratedBefore)
    /\ jumpsLeft = MaxLabelJumps
    /\ wheelLeft = 0
    /\ editsLeft = 0

NextMapper ==
    \/ \E rectangle_data \in MapperRects : PlacementSuccess(rectangle_data, TRUE)
    \/ \E num \in {1, 3}, p \in MapperPts : PosButton(num, p)
    \/ \E num \in {1, 3}, p \in MapperPts : LabelEvent("ButtonPress", num, p, 0)

SpecMapper == InitMapper /\ [][NextMapper]_vars

\* The table edit of positions_module.py for every sample list of up to two
\* samples and every open edit whose index is not below the list's length.
SampleLists ==
    LET one == AddSample(<<>>, RectUpright, Px(<<200, 170>>))
    IN {<<>>, one, AddSample(one, RectUpright, Px(<<210, 170>>))}

StaleEdits(samples) ==
    {[edit_entry |-> Some(text), edit_data_idx |-> Some(idx), edit_data_key |-> key] :
        text \in EntryTexts, idx \in Len(samples)..MaxSamples, key \in {"file", "sample_id"}}

InitEdit ==
    /\ program = "positions"
    /\ video = OnShowVideo(VideoInitState, Some(BaseUIState))
    /\ state = CalInitState
    /\ cal_pc = "loop"
    /\ result = <<"running">>
    /\ ui_state = Some(BaseUIState)
    /\ sample_points \in SampleLists
    /\ final_rectangle_corners = RectUpright
    /\ shown = "SamplePositionsFrame"
    /\ edit \in StaleEdits(sample_points)
    /\ b2_held = FALSE
    /\ pointer = Nowhere
    /\ last = NoEvent
    /\ calibrated_points = Some(CalibratedBefore)
    /\ placement = PlacementInitState
    /\ call = NoCall
    /\ anchor = None
    /\ selection = None
    /\ jumpsLeft = MaxLabelJumps
    /\ wheelLeft = 0
    /\ editsLeft = 0

NextEdit ==
    \/ EntryCommit
    \/ \E text \in EntryTexts : TypeEntry(text)
    \/ \E num \in {1, 3}, p \in LabelPts : PosButton(num, p)

SpecEdit == InitEdit /\ [][NextEdit]_vars

\* The whole workflow of the two applications, from the calibration frame.
Statuses == {"success", "back", "cancel"}

\* Video label: a position inside both rectangles, one inside the upright
\* rectangle only, and one outside both.
FlowPts == {<<150, 100>>, <<200, 170>>, <<FrameWidth - 20, FrameHeight - 1>>}

InitFlow ==
    /\ program \in {"positions", "sample_positions"}
    /\ video = VideoInitState
    /\ state = CalInitState
    /\ cal_pc = "loop"
    /\ result = <<"running">>
    /\ ui_state = None
    /\ sample_points = <<>>
    /\ final_rectangle_corners = None
    /\ shown = "CalibrationFrame"
    /\ edit = NoEdit
    /\ b2_held = FALSE
    /\ pointer = Nowhere
    /\ last = NoEvent
    /\ calibrated_points = None
    /\ placement = PlacementInitState
    /\ call = NoCall
    /\ anchor = None
    /\ selection = None
    /\ jumpsLeft = MaxLabelJumps
    /\ wheelLeft = 0
    /\ editsLeft = 0

NextFlow ==
    \/ \E points \in {<<>>, CalibratedBefore} : CalibrationComplete(points)
    \/ \E rectangle_data \in Rects, ret \in BOOLEAN : PlacementSuccess(rectangle_data, ret)
    \/ \E status \in Statuses : PlacementComplete(status)
    \/ \E status \in Statuses : SamplePositionsComplete(status)
    \/ OnBack
    \/ OnClosing
    \/ \E num \in {1, 3}, p \in FlowPts : PosButton(num, p)
    \/ \E num \in {1, 3}, p \in FlowPts : LabelEvent("ButtonPress", num, p, 0)

SpecFlow == InitFlow /\ [][NextFlow]_vars

\* Pan gestures over three pointer positions after at most one wheel event.
InitPan ==
    /\ program \in {"calibration", "sample_positions"}
    /\ InitCommon
    /\ calibrated_points = IF program = "calibration" THEN None ELSE Some(CalibratedBefore)
    /\ jumpsLeft = MaxPanJumps
    /\ wheelLeft = MaxPanWheel
    /\ editsLeft = 0

SpecPan == InitPan /\ [][NextView]_vars

\* Collecting and reordering samples in the frame of app.py.
InitOrder ==
    /\ program = "sample_positions"
    /\ InitCommon
    /\ calibrated_points = Some(CalibratedBefore)
    /\ jumpsLeft = MaxJumps
    /\ wheelLeft = 0
    /\ editsLeft = 0

NextOrder ==
    \/ PlacementSuccess(RectUpright, TRUE)
    \/ \E num \in {1, 3}, p \in LabelPts : LabelEvent("ButtonPress", num, p, 0)
    \/ \E idx \in 0..(MaxSamples - 1) : ListboxSelect(idx)
    \/ \E up \in BOOLEAN : MoveItem(up)

SpecOrder == InitOrder /\ [][NextOrder]_vars

(***************************************************************************)
(* Properties of the view transform.                                       *)
(***************************************************************************)
\* The source-frame point under the pointer position p.
CalSource(st, p) == ToSourceFrame(st.pan_offset, st.zoom, <<p[1], p[2] - HEADER_HEIGHT>>)
LabelSource(ui, p) == ToSourceFrame(ui.pan_offset, ui.zoom, p)

PanWithin(st) ==
    /\ 0 <= st.pan_offset[1] /\ st.pan_offset[1] <= FrameWidth * (Scale - FDiv(Scale * Scale, st.zoom))
    /\ 0 <= st.pan_offset[2] /\ st.pan_offset[2] <= FrameHeight * (Scale - FDiv(Scale * Scale, st.zoom))
    /\ st.zoom = ZOOM_MIN * Scale => st.pan_offset = <<0, 0>>

\* C1: after every handled event, in handle_view_controls and in the
\* calibration callback alike, 0 <= pan_offset <= frame size * (1 - 1/zoom)
\* on both axes, and pan_offset is (0, 0) whenever zoom is 1.0.
C1_PanClamped ==
    /\ PanWithin(state)
    /\ ui_state # None => PanWithin(ui_state[1])

\* C1 witness: handle_view_controls has zoomed in and the clamp holds the
\* view at the right edge of the frame.
C1_ClampedAtEdge ==
    /\ ui_state # None
    /\ ui_state[1].zoom > ZOOM_MIN * Scale
    /\ ui_state[1].zoom < ZOOM_MAX * Scale
    /\ ui_state[1].pan_offset[1] = FrameWidth * (Scale - FDiv(Scale * Scale, ui_state[1].zoom))

\* The step handles a wheel event over the image.
WheelStep == last' = EVENT_MOUSEWHEEL /\ (program = "sample_positions" => ui_state # None)

\* The source-frame point under the cursor is the same after the step.
KeepsSourceUnderCursor ==
    IF program = "calibration" THEN CalSource(state', pointer') = CalSource(state, pointer')
    ELSE LabelSource(ui_state'[1], pointer') = LabelSource(ui_state[1], pointer')

\* The pan offset that keeps the point under the cursor fixed at the new
\* zoom lies within the clamp range of the new zoom.
FitsClampRange ==
    LET new_zoom == IF program = "calibration" THEN state'.zoom ELSE ui_state'[1].zoom
        v == IF program = "calibration" THEN <<pointer'[1], pointer'[2] - HEADER_HEIGHT>> ELSE pointer'
        src == IF program = "calibration" THEN CalSource(state, pointer')
               ELSE LabelSource(ui_state[1], pointer')
        wanted == <<src[1] - FDiv(v[1] * Scale * Scale, new_zoom),
                    src[2] - FDiv(v[2] * Scale * Scale, new_zoom)>>
        room == Scale - FDiv(Scale * Scale, new_zoom)
    IN /\ 0 <= wanted[1] /\ wanted[1] <= FrameWidth * room
       /\ 0 <= wanted[2] /\ wanted[2] <= FrameHeight * room

\* C2 as stated: every wheel event at a view position leaves the
\* source-frame point under that position where it was.
C2_ZoomToCursorAlways == [][WheelStep => KeepsSourceUnderCursor]_vars

\* C2 amended: a wheel event leaves the source-frame point under the cursor
\* where it was whenever the pan offset that achieves this lies within the
\* clamp range of the new zoom (otherwise the clamp moves the view).
C2_ZoomToCursor == [][(WheelStep /\ FitsClampRange) => KeepsSourceUnderCursor]_vars

\* C2 witness: a wheel event has zoomed the calibration view in about a
\* cursor away from the origin, and the view sits strictly inside the frame.
C2_ZoomedAboutCursor ==
    /\ program = "calibration"
    /\ last = EVENT_MOUSEWHEEL
    /\ state.zoom > ZOOM_MIN * Scale
    /\ state.pan_offset[1] > 0
    /\ state.pan_offset[1] < FrameWidth * (Scale - FDiv(Scale * Scale, state.zoom))

\* C3: zoom stays within [1.0, 10.0] in both handlers, whatever the wheel does.
C3_ZoomInRange ==
    /\ ZOOM_MIN * Scale <= state.zoom /\ state.zoom <= ZOOM_MAX * Scale
    /\ ui_state # None =>
          (ZOOM_MIN * Scale <= ui_state[1].zoom /\ ui_state[1].zoom <= ZOOM_MAX * Scale)

\* C3 witness: the wheel has driven the calibration zoom to the upper limit.
C3_ZoomAtMax == program = "calibration" /\ state.zoom = ZOOM_MAX * Scale /\ last = EVENT_MOUSEWHEEL

\* The source-frame point under a position of the video label, as
\* on_mouse_event of positions_module.py computes it.
PosSource(ui, p) ==
    ToSourceFrame(ui.pan_offset, ui.zoom,
                  <<Clip(p[1], 0, FrameWidth - 1), Clip(p[2], 0, FrameHeight - 1)>>)

\* C4: in the sample-collection frames a left click, a right click, a
\* middle-button release and a pointer move while is_panning is false each
\* leave zoom and pan_offset as they were.
C4_ViewOnlyByGestures ==
    [][(/\ ui_state # None
        /\ \/ last' \in {EVENT_LBUTTONDOWN, EVENT_RBUTTONDOWN, EVENT_MBUTTONUP}
           \/ last' = EVENT_MOUSEMOVE /\ ~ui_state[1].is_panning)
       => /\ ui_state'[1].zoom = ui_state[1].zoom
          /\ ui_state'[1].pan_offset = ui_state[1].pan_offset]_vars

\* C4 witness: a left click has been handled by handle_view_controls while
\* the view was zoomed in and panned away from the origin.
C4_ClickWhileZoomed ==
    /\ program = "sample_positions"
    /\ ui_state # None
    /\ last = EVENT_LBUTTONDOWN
    /\ ui_state[1].zoom > ZOOM_MIN * Scale
    /\ ui_state[1].pan_offset[1] > 0

(***************************************************************************)
(* Properties of the calibration point list.                               *)
(***************************************************************************)
InImage(p) == p[2] >= HEADER_HEIGHT

\* C5: the calibration list never holds more than 3 points; a left click in
\* the image area appends the source-frame point under the cursor (in whole
\* pixels) when fewer than 3 are stored and leaves the list alone at 3.
C5_AtMostThreePoints ==
    /\ [](Len(state.points) <= MAX_POINTS)
    /\ [][(last' = EVENT_LBUTTONDOWN /\ InImage(pointer'))
          => IF Len(state.points) < MAX_POINTS
             THEN state'.points = Append(state.points,
                                         <<CalSource(state, pointer')[1] \div Scale,
                                           CalSource(state, pointer')[2] \div Scale>>)
             ELSE state'.points = state.points]_vars

\* C5 witness: three points are stored and the last left click, at a place
\* whose source-frame point is not the third of them, was ignored.
C5_FourthClickIgnored ==
    /\ Len(state.points) = MAX_POINTS
    /\ last = EVENT_LBUTTONDOWN
    /\ InImage(pointer)
    /\ state.points[MAX_POINTS] # <<CalSource(state, pointer)[1] \div Scale,
                                    CalSource(state, pointer)[2] \div Scale>>

\* C6 as stated: a right click in the image area removes the single point
\* closest to the click's source-frame position if it is within 15/zoom,
\* and nothing when no point is within that radius.
C6_RemovesClosest ==
    [][(last' = EVENT_RBUTTONDOWN /\ InImage(pointer'))
       => LET src == CalSource(state, pointer')
              dist(i) == SqNorm(Sub2(Px(state.points[i]), src))
              within == {i \in 1..Len(state.points) :
                            SqLess(dist(i), SqNorm(<<FDiv(DETECTION_RADIUS * Scale * Scale, state.zoom), 0>>))}
          IN IF within = {} THEN state'.points = state.points
             ELSE \E i \in within :
                     /\ \A j \in within : ~SqLess(dist(j), dist(i))
                     /\ state'.points = RemoveAt(state.points, i)]_vars

TwoDigits(n) == <<"0", Digits[n + 1]>>

\* The step is a left / right click handled by on_mouse_event of
\* positions_module.py.
PosLeftClick == program = "positions" /\ ui_state # None /\ last' = EVENT_LBUTTONDOWN
PosRightClick == program = "positions" /\ ui_state # None /\ last' = EVENT_RBUTTONDOWN

\* The forward-mapped point of the click lies in [0, W*k) x [0, H*k), for a
\* rectangle of four corners.
MapsInside(src) ==
    /\ final_rectangle_corners # None
    /\ Len(final_rectangle_corners) = 4
    /\ LET fwd == PerspectiveTransform(OrderPoints(final_rectangle_corners), src)
       IN /\ 0 <= fwd[1] /\ fwd[1] < RECT_REAL_WIDTH_MM * MM_DIVISOR * Scale
          /\ 0 <= fwd[2] /\ fwd[2] < RECT_REAL_HEIGHT_MM * MM_DIVISOR * Scale

\* What the claim says a left click makes of the sample list "existing".
AddOutcome(existing) ==
    LET src == PosSource(ui_state'[1], pointer')
        n == Len(existing)
    IN IF ~MapsInside(src) THEN sample_points' = existing
       ELSE /\ Len(sample_points') = n + 1
            /\ SubSeq(sample_points', 1, n) = existing
            /\ sample_points'[n + 1] =
                  [file |-> TwoDigits(n + 1), sample_id |-> <<>>, cam_coords |-> src,
                   real_coords |-> PerspectiveTransform(OrderPoints(final_rectangle_corners), src)]

\* C8 as stated: a left click leaves the sample list unchanged when there
\* is no 4-corner rectangle or the click maps outside it, and otherwise
\* appends one sample (file index previous length + 1 in two digits, empty
\* label, the click's source-frame and mm coordinates) and changes no
\* existing sample.
C8_AddLeavesExisting == [][PosLeftClick => AddOutcome(sample_points)]_vars

\* C8 amended: the same, for the sample list as it stands once the click
\* has committed a table edit that was still open (the handler commits it
\* before it adds).
C8_AddAfterCommit == [][PosLeftClick => AddOutcome(CommitEdit(sample_points, edit))]_vars

\* C8 witness: a left click has appended a second sample, at the clicked
\* place, to a list whose first sample carries an edited label.
C8_AppendedSecond ==
    /\ program = "positions"
    /\ last = EVENT_LBUTTONDOWN
    /\ Len(sample_points) = 2
    /\ sample_points[2].cam_coords = Px(pointer)
    /\ sample_points[2].file = <<"0", "2">>
    /\ sample_points[1].sample_id = <<"A">>
    /\ editsLeft = MaxEdits - 1
    /\ edit = NoEdit

\* Every stored sample has 0 <= x < 130 and 0 <= y < 120 millimetres.
StoredWithinRectangle ==
    \A i \in 1..Len(sample_points) :
        /\ 0 <= sample_points[i].real_coords[1]
        /\ sample_points[i].real_coords[1] < RECT_REAL_WIDTH_MM * MM_DIVISOR * Scale
        /\ 0 <= sample_points[i].real_coords[2]
        /\ sample_points[i].real_coords[2] < RECT_REAL_HEIGHT_MM * MM_DIVISOR * Scale

\* C9: with a 4-corner rectangle a left click stores a sample if and only
\* if its forward-mapped point lies in [0, 1300) x [0, 1200), and then with
\* exactly that point over ten as millimetres (nothing is clamped); every
\* stored sample has 0 <= x < 130 and 0 <= y < 120, in both frames.
C9_MappedIffInside ==
    /\ []StoredWithinRectangle
    /\ [][(ui_state # None /\ last' = EVENT_LBUTTONDOWN)
          => LET src == IF program = "positions" THEN PosSource(ui_state'[1], pointer')
                        ELSE LabelSource(ui_state'[1], pointer')
                 stored == Len(sample_points') = Len(sample_points) + 1
             IN /\ stored <=> MapsInside(src)
                /\ ~stored => Len(sample_points') = Len(sample_points)
                /\ stored => sample_points'[Len(sample_points')].real_coords =
                                PerspectiveTransform(OrderPoints(final_rectangle_corners), src)]_vars

\* C9 witness: a click on the far corner of the upright rectangle has been
\* stored with the largest coordinates the range admits there, 129.9 and
\* 119.9 mm.
C9_StoredAtFarCorner ==
    /\ last = EVENT_LBUTTONDOWN
    /\ Len(sample_points) > 0
    /\ sample_points[Len(sample_points)].real_coords =
          <<(RECT_REAL_WIDTH_MM * MM_DIVISOR - 1) * Scale, (RECT_REAL_HEIGHT_MM * MM_DIVISOR - 1) * Scale>>

\* The file indices of a sample list are 1..n in list order.
FilesSequential(samples) == \A k \in 1..Len(samples) : samples[k].file = TwoDigits(k)

\* One sample of "existing" is gone; the others follow in their order with
\* file indices 1..n-1 and their coordinates and labels.
RemovedOneOf(existing) ==
    \E i \in 1..Len(existing) :
        /\ Len(sample_points') = Len(existing) - 1
        /\ \A k \in 1..(Len(existing) - 1) :
              LET old == existing[IF k < i THEN k ELSE k + 1]
              IN sample_points'[k] = [file |-> TwoDigits(k), sample_id |-> old.sample_id,
                                      cam_coords |-> old.cam_coords,
                                      real_coords |-> old.real_coords]

\* C10 as stated: when a right click removes a sample from n samples with
\* file indices 1..n, the remaining ones carry 1..n-1 in list order and
\* keep their coordinates and their label.
C10_RenumberKeepsLabels ==
    [][(/\ PosRightClick
        /\ FilesSequential(sample_points)
        /\ Len(sample_points') = Len(sample_points) - 1)
       => RemovedOneOf(sample_points)]_vars

\* C10 amended: the same, with the labels as they stand once the click has
\* committed a table edit that was still open.
C10_RenumberAfterCommit ==
    [][(/\ PosRightClick
        /\ FilesSequential(sample_points)
        /\ Len(sample_points') = Len(sample_points) - 1)
       => RemovedOneOf(CommitEdit(sample_points, edit))]_vars

\* C10 witness: a right click on a place that still holds a sample: the
\* first of several samples there was removed and the next one moved up.
C10_MovedUp ==
    /\ program = "positions"
    /\ last = EVENT_RBUTTONDOWN
    /\ Len(sample_points) >= 1
    /\ sample_points[1].cam_coords = Px(pointer)
    /\ sample_points[1].file = <<"0", "1">>

(***************************************************************************)
(* Removal of samples.                                                     *)
(***************************************************************************)

\* The source-frame and mm coordinates of the samples, in list order.
Places(samples) ==
    [k \in 1..Len(samples) |-> <<samples[k].cam_coords, samples[k].real_coords>>]

\* The step is a right click handled by on_mouse_event of either frame.
FrameRightClick == ui_state # None /\ last' = EVENT_RBUTTONDOWN

\* The source-frame point of the click the step handles.
ClickSource ==
    IF program = "positions" THEN PosSource(ui_state'[1], pointer')
    ELSE LabelSource(ui_state'[1], pointer')

\* C11: a right click in either sample-collection frame removes at most one
\* sample, one at the least distance from the click's source-frame point,
\* and only if that distance is below 15/zoom; with no sample, or with the
\* closest one at 15/zoom or farther, the samples stay as they are.
C11_RemovesNearest ==
    [][FrameRightClick
       => LET dist(i) == SqNorm(Sub2(sample_points[i].cam_coords, ClickSource))
              radius == SqNorm(<<FDiv(DETECTION_RADIUS * Scale * Scale, ui_state[1].zoom), 0>>)
              n == Len(sample_points)
          IN IF n = 0 \/ \A i \in 1..n : ~SqLess(dist(i), radius)
             THEN Places(sample_points') = Places(sample_points)
             ELSE \E i \in 1..n :
                     /\ \A j \in 1..n : ~SqLess(dist(j), dist(i))
                     /\ SqLess(dist(i), radius)
                     /\ Places(sample_points') = Places(RemoveAt(sample_points, i))]_vars

\* C11 witness: after a right click a sample remains that is itself within
\* the radius of the click: the click removed one closer sample and no more.
C11_OneRemoved ==
    /\ ui_state # None
    /\ last = EVENT_RBUTTONDOWN
    /\ Len(sample_points) = 1
    /\ sample_points[1].cam_coords # LabelSource(ui_state[1], pointer)
    /\ WithinRadius(sample_points[1].cam_coords, LabelSource(ui_state[1], pointer),
                    DetectionRadius(ui_state[1].zoom))

(***************************************************************************)
(* Properties of the rectangle solver.                                     *)
(***************************************************************************)
\* The three points lie on one line (two equal points included).
Collinear(pts) ==
    (pts[2][1] - pts[1][1]) * (pts[3][2] - pts[1][2])
        = (pts[3][1] - pts[1][1]) * (pts[2][2] - pts[1][2])

\* C12: for three collinear calibration points a tick of the placement
\* loop finds no circumcenter (None, no quotient is formed), draws no
\* crosshair, no line and no rectangle, and leaves the loop running for the
\* next tick.
C12_CollinearNoRectangle ==
    (placement.drawn # None /\ Collinear(calibrated_points[1]))
        => /\ placement.drawn[1].center = None
           /\ placement.drawn[1].line = None
           /\ ~placement.drawn[1].rectangle
           /\ placement.returned = None => (placement.pc = "loop" /\ ENABLED PlaceTick(TRUE))

\* C12 witness: the loop has ticked on (0,0), (1,1), (2,2) and still runs.
C12_TickedOnDiagonal ==
    /\ calibrated_points = Some(<<<<0, 0>>, <<1, 1>>, <<2, 2>>>>)
    /\ placement.drawn = Some([NothingDrawn EXCEPT !.points = TRUE])
    /\ placement.pc = "loop"

\* c is the real number n / d truncated toward zero (d # 0).
IsTruncationOf(c, n, d) ==
    IF (n >= 0) = (d > 0)
    THEN c >= 0 /\ c * Abs(d) <= Abs(n) /\ Abs(n) < (c + 1) * Abs(d)
    ELSE c <= 0 /\ (0 - c) * Abs(d) <= Abs(n) /\ Abs(n) < (1 - c) * Abs(d)

\* The point <<u[1] / d, u[2] / d>> has the same distance to p and to q.
EquidistantFrom(u, d, p, q) ==
    2 * (u[1] * (q[1] - p[1]) + u[2] * (q[2] - p[2]))
        = d * ((q[1] * q[1] + q[2] * q[2]) - (p[1] * p[1] + p[2] * p[2]))

ExtremeCorner(c, pts, k, sign) ==
    /\ \E i \in 1..Len(pts) : pts[i] = c
    /\ \A i \in 1..Len(pts) : sign * (c[1] + k * c[2]) <= sign * (pts[i][1] + k * pts[i][2])

\* C14 (as stated): the ordered corners are the one with minimal x+y, the
\* one with minimal x-y, the one with maximal x+y and the one with maximal
\* x-y, in this order.
C14_OrderAsStated ==
    final_rectangle_corners # None
        => LET rect == OrderPoints(final_rectangle_corners)
           IN /\ ExtremeCorner(rect[1], final_rectangle_corners, 1, 1)
              /\ ExtremeCorner(rect[2], final_rectangle_corners, 0 - 1, 1)
              /\ ExtremeCorner(rect[3], final_rectangle_corners, 1, 0 - 1)
              /\ ExtremeCorner(rect[4], final_rectangle_corners, 0 - 1, 0 - 1)

\* C14 (amended): the ordered corners are the one with minimal x+y (top-left),
\* the one with maximal x-y (top-right), the one with maximal x+y
\* (bottom-right) and the one with minimal x-y (bottom-left), in this order.
C14_OrderBySumAndDifference ==
    final_rectangle_corners # None
        => LET rect == OrderPoints(final_rectangle_corners)
           IN /\ ExtremeCorner(rect[1], final_rectangle_corners, 1, 1)
              /\ ExtremeCorner(rect[2], final_rectangle_corners, 0 - 1, 0 - 1)
              /\ ExtremeCorner(rect[3], final_rectangle_corners, 1, 0 - 1)
              /\ ExtremeCorner(rect[4], final_rectangle_corners, 0 - 1, 1)

\* C14 witness: a sample was mapped through the ordered corners of the
\* upright rectangle, whose second corner is the top-right one: the click
\* at (200, 110) lies further along the top edge than along the left edge.
C14_UprightOrdered ==
    /\ final_rectangle_corners = RectUpright
    /\ OrderPoints(RectUpright)[2] = <<230, 60>>
    /\ Len(sample_points) = 1
    /\ sample_points[1].cam_coords = Px(<<200, 110>>)
    /\ sample_points[1].real_coords[1] > sample_points[1].real_coords[2]

\* p (in 1/Scale pixel) lies on or inside the quadrilateral whose corners
\* are given in the cyclic order of cv2.boxPoints.
InsideQuad(corners, p) ==
    LET Side(i) == Cross(Sub2(corners[(i % 4) + 1], corners[i]), Sub2(p, Px(corners[i])))
    IN \/ \A i \in 1..4 : Side(i) >= 0
       \/ \A i \in 1..4 : Side(i) <= 0

\* C15: for a rectangle whose corners are not singular, every stored sample
\* clicked on or inside the rectangle is mapped back by the inverse
\* transform from its millimetre coordinates to its source-frame point,
\* within RoundTripTol.
C15_RoundTrip ==
    (final_rectangle_corners # None /\ ~SingularCorners(final_rectangle_corners))
        => \A i \in 1..Len(sample_points) :
              LET p == sample_points[i].cam_coords
                  back == InversePerspective(OrderPoints(final_rectangle_corners),
                                             sample_points[i].real_coords)
              IN InsideQuad(final_rectangle_corners, p)
                    => /\ Abs(back[1] - p[1]) <= RoundTripTol
                       /\ Abs(back[2] - p[2]) <= RoundTripTol

\* C16: with singular rectangle corners no click stores a sample.
C16_SingularStoresNothing ==
    (final_rectangle_corners # None /\ SingularCorners(final_rectangle_corners))
        => sample_points = <<>>

(***************************************************************************)
(* Properties of the table edit.                                           *)
(***************************************************************************)
\* The open edit's index is not below the number of samples.
StaleEdit ==
    /\ edit.edit_entry # None
    /\ edit.edit_data_idx # None
    /\ edit.edit_data_idx[1] >= Len(sample_points)

\* C17: committing an edit whose index is not below the number of samples
\* closes the edit and changes no sample, also when a click commits it; and
\* a right click on an empty sample set leaves it empty.
C17_OutOfRangeIsNoOp ==
    [][/\ (StaleEdit /\ edit'.edit_entry = None /\ last' = NoEvent)
            => (sample_points' = sample_points /\ edit' = NoEdit)
       /\ (StaleEdit /\ last' = EVENT_RBUTTONDOWN)
            => /\ edit' = NoEdit
               /\ sample_points' = RemoveSample(sample_points, ClickSource, ui_state[1].zoom)
       /\ (sample_points = <<>> /\ last' = EVENT_RBUTTONDOWN)
            => sample_points' = <<>>]_vars

\* C17 witness: a right click far from every sample of SampleLists, at the
\* only position the pointer has visited, has committed an edit with an
\* index not below the set's size; the set was empty and still is.
C17_ClickedOnEmpty ==
    /\ program = "positions"
    /\ last = EVENT_RBUTTONDOWN
    /\ pointer = <<FrameWidth - 20, FrameHeight - 1>>
    /\ jumpsLeft = MaxLabelJumps - 1
    /\ sample_points = <<>>
    /\ edit = NoEdit

(***************************************************************************)
(* Properties of the workflow.                                             *)
(***************************************************************************)
\* C18: the sample-collection frame is raised only by
\* placement_complete('success') from the placement frame, which is raised
\* from the calibration frame only by calibration_complete with a non-empty
\* point list; 'back' raises the frame one step earlier; every other status
\* of placement_complete and sample_positions_complete closes the
\* application.
C18_WorkflowInOrder ==
    /\ [](shown \in {"PlacementFrame", "SamplePositionsFrame"} => calibrated_points # None)
    /\ [][/\ (shown' = "SamplePositionsFrame" /\ shown # "SamplePositionsFrame")
               => (shown = "PlacementFrame" /\ call' = <<"placement_complete", "success">>)
          /\ (shown' = "PlacementFrame" /\ shown = "CalibrationFrame")
               => (call' = <<"calibration_complete", "points">> /\ calibrated_points' # None)
          /\ call' = <<"sample_positions_complete", "back">>
               => (shown = "SamplePositionsFrame" /\ shown' = "PlacementFrame")
          /\ call' = <<"placement_complete", "back">>
               => (shown = "PlacementFrame" /\ shown' = "CalibrationFrame")
          /\ (/\ call' # NoCall
              /\ call'[1] \in {"placement_complete", "sample_positions_complete"}
              /\ call'[2] \notin {"success", "back"})
               => shown' = "closed"]_vars

\* C18 witness: after calibration, placement and a stored sample, 'back'
\* has raised the placement frame again.
C18_BackFromSamples ==
    /\ call = <<"sample_positions_complete", "back">>
    /\ shown = "PlacementFrame"
    /\ calibrated_points = Some(CalibratedBefore)
    /\ final_rectangle_corners = RectUpright
    /\ program = "sample_positions"
    /\ Len(sample_points) = 1

(***************************************************************************)
(* Properties of the pan gesture.                                          *)
(***************************************************************************)
\* Two pan offsets are equal up to rounding.
NearPan(p, q) == Abs(p[1] - q[1]) <= PanTol /\ Abs(p[2] - q[2]) <= PanTol

\* anchor - c / zoom, clamped, for the view point c the pointer moves to.
PanFromAnchor(c, z) == ClampPan(Sub2(anchor[1], OverZoom(c, z)), z)

\* C19: while the middle button is down, every pointer move to view point c
\* sets pan_offset to the clamped anchor - c/zoom, the anchor being the
\* source-frame point that was under the pointer at the press, in the
\* calibration window (where the pointer's previous position has been
\* delivered by the press or by a move) as in the sample-collection frame.
C19_PanFollowsAnchor ==
    [][(anchor # None /\ last' = EVENT_MOUSEMOVE)
          => /\ (program = "calibration" /\ state.is_panning /\ state.pan_start_pos = pointer)
                   => NearPan(state'.pan_offset,
                              PanFromAnchor(<<pointer'[1], pointer'[2] - HEADER_HEIGHT>>, state.zoom))
             /\ (program = "sample_positions" /\ ui_state # None /\ ui_state[1].is_panning)
                   => NearPan(ui_state'[1].pan_offset, PanFromAnchor(pointer', ui_state[1].zoom))]_vars

(***************************************************************************)
(* Properties of manual reordering.                                        *)
(***************************************************************************)
\* The list s with its entries at positions a and b (from 1) exchanged.
Exchanged(s, a, b) ==
    [k \in 1..Len(s) |-> IF k = a THEN s[b] ELSE IF k = b THEN s[a] ELSE s[k]]

\* C20: move-up on the selected index i > 0 exchanges entries i and i-1,
\* move-down on i < n-1 exchanges entries i and i+1; at the list's ends and
\* with no selection the list is unchanged; the samples after the step are
\* the samples before it, each with its own pixel and mm coordinates.
C20_SwapsAdjacent ==
    [][LET n == Len(sample_points)
           i == IF selection = None THEN 0 - 1 ELSE selection[1]
       IN /\ call' = <<"_move_item_up">>
               => sample_points' = IF i > 0 THEN Exchanged(sample_points, i + 1, i)
                                   ELSE sample_points
          /\ call' = <<"_move_item_down">>
               => sample_points' = IF i >= 0 /\ i < n - 1
                                   THEN Exchanged(sample_points, i + 1, i + 2)
                                   ELSE sample_points
          /\ call' \in {<<"_move_item_up">>, <<"_move_item_down">>}
               => /\ Len(sample_points') = n
                  /\ \A k \in 1..n :
                        Cardinality({j \in 1..n : Places(sample_points')[j] = Places(sample_points)[k]})
                            = Cardinality({j \in 1..n : Places(sample_points)[j] = Places(sample_points)[k]})]_vars

\* C20 witness: samples were stored at (200,170), (200,170) and, last,
\* (210,170); move-up on the third has put it between the other two.
C20_MovedUpOnce ==
    /\ call = <<"_move_item_up">>
    /\ selection = Some(1)
    /\ pointer = <<210, 170>>
    /\ jumpsLeft = MaxJumps - 2
    /\ Len(sample_points) = 3
    /\ sample_points[1].cam_coords = Px(<<200, 170>>)
    /\ sample_points[2].cam_coords = Px(<<210, 170>>)
    /\ sample_points[3].cam_coords = Px(<<200, 170>>)

(***************************************************************************)
(* Properties of entering and leaving the sample-collection step.          *)
(***************************************************************************)
\* C21: whenever the sample-collection frame is raised its sample set is
\* empty, and in every state each sample's mm coordinates are those the
\* rectangle corners now held by the controller give for its pixel
\* coordinates.
C21_EmptyOnShow ==
    /\ [](\A i \in 1..Len(sample_points) :
             sample_points[i].real_coords
                = TransformCamToReal(final_rectangle_corners, sample_points[i].cam_coords))
    /\ [][(shown' = "SamplePositionsFrame" /\ shown # "SamplePositionsFrame")
             => sample_points' = <<>>]_vars

\* C21 witness: the frame of app.py, left with a sample stored under the
\* upright rectangle or after clicks that stored none, has just been raised
\* again with the turned rectangle, and its sample set is empty.
C21_RaisedAgainEmpty ==
    /\ program = "sample_positions"
    /\ call = <<"placement_complete", "success">>
    /\ shown = "SamplePositionsFrame"
    /\ final_rectangle_corners = RectTurned
    /\ pointer = <<200, 170>>
    /\ sample_points = <<>>

(***************************************************************************)
(* Properties of the rectangle's orientation.                              *)
(***************************************************************************)
\* C22: the angle of a drawn rectangle is taken from a vector that runs
\* between two of the three calibration points, from one whose x lies
\* between those of the other two (bounds included) to one with the largest
\* x, the third point having the smallest x; so dx >= 0; and the offset of
\* 5 degrees is what is added to it.
C22_AngleFromRightmostPair ==
    (placement.drawn # None /\ placement.drawn[1].rectangle)
        => LET pts == calibrated_points[1]
               a == placement.drawn[1].angle[1]
           IN \E l \in 1..3, m \in 1..3, r \in 1..3 :
                 /\ {l, m, r} = {1, 2, 3}
                 /\ pts[l][1] <= pts[m][1] /\ pts[m][1] <= pts[r][1]
                 /\ a.dx = pts[r][1] - pts[m][1]
                 /\ a.dy = pts[r][2] - pts[m][2]
                 /\ a.dx >= 0
                 /\ a.offset = 5
                 /\ placement.drawn[1].line = Some(<<pts[m], pts[r]>>)

\* C22 witness: for (4,0), (0,1), (2,3) the leftmost point (0,1) is left
\* out and the vector runs from (2,3) to (4,0).
C22_LeftmostLeftOut ==
    /\ calibrated_points = Some(<<<<4, 0>>, <<0, 1>>, <<2, 3>>>>)
    /\ placement.drawn # None
    /\ placement.drawn[1].angle = Some([dx |-> 2, dy |-> 0 - 3, offset |-> 5])

(***************************************************************************)
(* Properties of the value get_three_points returns.                       *)
(***************************************************************************)
\* C23: once get_three_points has returned, its result is None or a list
\* of exactly three points.
C23_NoneOrThreePoints ==
    cal_pc = "done" => (result = <<"None">> \/ (result[1] = "points" /\ Len(result[2]) = 3))

(***************************************************************************)
(* The header buttons of the calibration and placement windows: moves and  *)
(* clicks anywhere in the window.                                          *)
(***************************************************************************)
HeaderEvents == {EVENT_MOUSEMOVE, EVENT_LBUTTONDOWN, EVENT_RBUTTONDOWN}

InitHeader ==
    /\ program \in {"calibration", "placement"}
    /\ InitCommon
    /\ calibrated_points = IF program = "calibration" THEN None ELSE Some(CalibratedBefore)
    /\ jumpsLeft = MaxJumps
    /\ wheelLeft = 0
    /\ editsLeft = 0

NextHeader ==
    \/ \E event \in HeaderEvents, p \in CalPts : CalMouse(event, p, 0)
    \/ CalReturnPoints
    \/ CalQuit
    \/ \E ret \in BOOLEAN : PlaceTick(ret)
    \/ \E event \in HeaderEvents, p \in CalPts : PlaceMouse(event, p)
    \/ PlaceQuit
    \/ PlaceReturn

SpecHeader == InitHeader /\ [][NextHeader]_vars

\* The latest step was a left click inside the button rectangle rect.
ClickedInside(rect) ==
    /\ last' = EVENT_LBUTTONDOWN
    /\ IsPointInRect(pointer'[1], pointer'[2], rect)

\* C24: a step that empties a non-empty list of points other than by a
\* right click is a left click inside the Reset rectangle; a step that sets
\* confirmed is a left click inside the Next rectangle; a step that sets
\* back_clicked (next_clicked) is a left click inside the Back (Next)
\* rectangle.
C24_HeaderActionOnlyInsideButton ==
    [][/\ (state.points # <<>> /\ state'.points = <<>> /\ last' # EVENT_RBUTTONDOWN)
            => ClickedInside(reset_button_rect)
       /\ (~state.confirmed /\ state'.confirmed) => ClickedInside(next_button_rect)
       /\ (~placement.back_clicked /\ placement'.back_clicked) => ClickedInside(back_button_rect)
       /\ (~placement.next_clicked /\ placement'.next_clicked) => ClickedInside(next_button_rect)
      ]_vars

(***************************************************************************)
(* Properties of panning and the middle button.                            *)
(***************************************************************************)
\* C25: after every middle-button release is_panning is false, and a
\* pointer move that directly follows a middle-button release leaves
\* pan_offset as it was.
C25_ReleaseEndsPanning ==
    [][/\ last' = EVENT_MBUTTONUP => ~state'.is_panning
       /\ (last = EVENT_MBUTTONUP /\ last' = EVENT_MOUSEMOVE)
             => state'.pan_offset = state.pan_offset
      ]_vars

(***************************************************************************)
(* Properties of the corner order on rectangles with tied sums.            *)
(***************************************************************************)
\* C26: for the corners of a non-degenerate rectangle handed over by the
\* placement step, each corner appears exactly once in what _order_points
\* returns.
C26_OrderIsPermutation ==
    (final_rectangle_corners # None /\ ~SingularCorners(final_rectangle_corners))
        => LET rect == OrderPoints(final_rectangle_corners)
           IN \A i \in 1..4 :
                 Cardinality({j \in 1..4 : rect[j] = final_rectangle_corners[i]}) = 1

(***************************************************************************)
(* Properties of the file indices.                                         *)
(***************************************************************************)
\* C27: no two samples of the set carry the same file index.
C27_FileIndicesUnique ==
    program = "positions"
        => \A i \in 1..Len(sample_points), j \in 1..Len(sample_points) :
              i # j => sample_points[i].file # sample_points[j].file

(***************************************************************************)
(* Properties of an open table edit.                                       *)
(***************************************************************************)
\* The list samples with the open edit ed written into it: the stripped
\* text of the entry in the edited field of the sample the edit was opened
\* on, every other field and sample as before.
EditWritten(samples, ed) ==
    [i \in 1..Len(samples) |->
        IF i # ed.edit_data_idx[1] + 1 THEN samples[i]
        ELSE [file |-> IF ed.edit_data_key = "file" THEN Strip(ed.edit_entry[1]) ELSE samples[i].file,
              sample_id |-> IF ed.edit_data_key = "sample_id" THEN Strip(ed.edit_entry[1])
                            ELSE samples[i].sample_id,
              cam_coords |-> samples[i].cam_coords,
              real_coords |-> samples[i].real_coords]]

\* after is before with one sample appended, or with one sample removed and
\* the files renumbered.
AddedOrRemoved(before, after) ==
    \/ /\ Len(after) = Len(before) + 1
       /\ SubSeq(after, 1, Len(before)) = before
    \/ \E j \in 1..Len(before) : after = RenumberFiles(RemoveAt(before, j))

\* C28: an open edit's index is that of a sample of the list; a step taken
\* while an edit is open leaves the sample list as it is, or empties it
\* and drops the edit, or leaves the list in which only the edited field of
\* the sample the edit was opened on has the entry's text, a sample being
\* added or removed only after that and with the edit ended.
C28_EditWritesToItsSample ==
    [][/\ edit'.edit_entry # None
            => /\ edit'.edit_data_idx # None
               /\ edit'.edit_data_idx[1] < Len(sample_points')
       /\ edit.edit_entry # None
            => \/ sample_points' = sample_points
               \/ sample_points' = <<>> /\ edit' = NoEdit
               \/ sample_points' = EditWritten(sample_points, edit)
               \/ /\ edit' = NoEdit
                  /\ AddedOrRemoved(EditWritten(sample_points, edit), sample_points')
      ]_vars

\* C28 witness: the edit of the second sample's id was open with "A" typed
\* when a right click removed the first sample: the click committed the
\* edit first, and the sample left is the edited one, renumbered.
C28_CommittedBeforeRemoval ==
    /\ program = "positions"
    /\ last = EVENT_RBUTTONDOWN
    /\ edit = NoEdit
    /\ editsLeft = MaxEdits - 1
    /\ Len(sample_points) = 1
    /\ sample_points[1].sample_id = <<"A">>
    /\ sample_points[1].file = <<"0", "1">>
    /\ sample_points[1].cam_coords = Px(<<210, 170>>)

(***************************************************************************)
(* The video loop of the sample-collection frames: showing and leaving the *)
(* frame, clicks on the video label, and the timer.                        *)
(***************************************************************************)
InitLoop ==
    /\ program \in {"positions", "sample_positions"}
    /\ InitCommon
    /\ calibrated_points = Some(CalibratedBefore)
    /\ jumpsLeft = MaxLabelJumps
    /\ wheelLeft = 0
    /\ editsLeft = 0

NextLoop ==
    \/ \E ret \in BOOLEAN : PlacementSuccess(RectUpright, ret)
    \/ OnBack
    \/ VideoLoop
    \/ \E num \in {1, 3}, p \in FlowPts : PosButton(num, p)
    \/ \E num \in {1, 3}, p \in FlowPts : LabelEvent("ButtonPress", num, p, 0)

SpecLoop == InitLoop /\ [][NextLoop]_vars

\* C29: after every step at most one video_loop callback is scheduled, and
\* a callback that runs while the frame is hidden schedules no successor.
C29_OneVideoLoopChain ==
    [][/\ video'.pending <= 1
       /\ (call' = <<"video_loop">> /\ ~video.is_active)
            => video'.pending = video.pending - 1
      ]_vars

(***************************************************************************)
(* The rectangle solver on calibration points of a full camera frame.      *)
(***************************************************************************)
CameraWidth == 1920
CameraHeight == 1080

\* Coordinates at the borders, near them and in the middle of the frame.
WideXs == {0, 5, CameraWidth \div 2, CameraWidth - 1}
WideYs == {0, 5, CameraHeight \div 2, CameraHeight - 1}
WidePoints == {<<x, y>> : x \in WideXs, y \in WideYs}

InitWide ==
    /\ program = "placement"
    /\ InitCommon
    /\ \E p1 \in WidePoints, p2 \in WidePoints, p3 \in WidePoints :
          calibrated_points = Some(<<p1, p2, p3>>)
    /\ jumpsLeft = 0
    /\ wheelLeft = 0
    /\ editsLeft = 0

SpecWide == InitWide /\ [][NextSolver]_vars

MaxInt32 == (HalfWord \div 2 - 1) * HalfWord + (HalfWord - 1)
MinInt32 == 0 - MaxInt32 - 1

\* The product a * b (a >= 0) lies in the signed 32-bit range.
ProductFits(a, b) == b = 0 \/ a <= MaxInt32 \div Abs(b)

\* The sum a + b lies in the signed 32-bit range.
SumFits(a, b) == IF b >= 0 THEN a <= MaxInt32 - b ELSE a >= MinInt32 - b

\* The three products sq[i] * d[i] and the sums of the first two and of all
\* three lie in the signed 32-bit range.
NumeratorFits(sq, d) ==
    /\ \A i \in 1..3 : ProductFits(sq[i], d[i])
    /\ SumFits(sq[1] * d[1], sq[2] * d[2])
    /\ SumFits(sq[1] * d[1] + sq[2] * d[2], sq[3] * d[3])

\* C30: for the non-collinear points of a frame of 1920 x 1080 every
\* product and sum in the numerators of ux and uy lies in the signed 32-bit
\* range, and the centre drawn is the exact circumcenter truncated.
C30_NoWraparound ==
    (placement.drawn # None /\ placement.drawn[1].center # None)
        => LET pts == calibrated_points[1]
               sq == [i \in 1..3 |-> pts[i][1] * pts[i][1] + pts[i][2] * pts[i][2]]
               dy == <<pts[2][2] - pts[3][2], pts[3][2] - pts[1][2], pts[1][2] - pts[2][2]>>
               dx == <<pts[3][1] - pts[2][1], pts[1][1] - pts[3][1], pts[2][1] - pts[1][1]>>
           IN /\ NumeratorFits(sq, dy)
              /\ NumeratorFits(sq, dx)
              /\ placement.drawn[1].center
                    = Some(<<TruncDiv(CircumNumUnbounded(pts)[1], CircumD(pts)),
                             TruncDiv(CircumNumUnbounded(pts)[2], CircumD(pts))>>)

=============================================================================
